---- MODULE Spec2Model ----
(***************************************************************************)
(* Verification model of the cachimbo cache layers.                        *)
(*                                                                         *)
(* Four layers are modelled , each over its own wrapped store:             *)
(*   - CoalescingCache (src/src/layers/coalescing/index.ts)                *)
(*   - TaggingCache    (src/src/layers/metrics/index.ts, second half)      *)
(*   - SWRCache        (src/src/local/lru/index.test.ts, second half)      *)
(*   - TieredCache     (src/src/layers/tiered/index.ts)                    *)
(* and beside them FailSafeCache.getOrLoad over BaseCache.getOrLoad        *)
(* (src/src/layers/fail-safe/index.ts, src/src/base/index.ts) and the      *)
(* LocalMapCache (src/src/local/map/index.ts).                             *)
(* Every asynchronous handler is split at its awaits: one action for the   *)
(* synchronous prefix of the call and one for each continuation.           *)
(***************************************************************************)
EXTENDS Integers, FiniteSets, Sequences, TLC

\* ------------------------------------------------------------------------
\* Bounds of the model
\* ------------------------------------------------------------------------
MaxCalls == 3
MaxTime == 2
MaxTagOps == 3
NTasks == 2
MaxSwrOps == 3
NSlots == 2
MaxNow == 2500
MaxBg == 2
NTiers == 3
MaxTierOps == 2
MaxBatchCalls == 2
\* getOrLoad calls on the fail-safe cache
MaxFsOps == 2
\* the max option of the LocalMapCache
MapMax == 2
\* keys of one setMany on the LocalMapCache
MaxData == 3

\* ------------------------------------------------------------------------
\* Shared vocabulary
\* ------------------------------------------------------------------------
Null == "null"

\* ========================================================================
\*  PART 1 - CoalescingCache
\* ========================================================================
VARIABLES
    cstore,            \* the wrapped cache: key -> value or Null
    ongoingRequests,   \* CoalescingCache.ongoingRequests: key -> record or NoReq
    prom,              \* the promises created by the layer, by id
    nprom,             \* number of promises created so far
    call,              \* the calls made on the layer, by id (issue order)
    ncall              \* number of calls issued so far

coalVars == <<cstore, ongoingRequests, prom, nprom, call, ncall>>

CKeys == {"k1", "k2"}
SetVals == {"a"}
LoadResults == {"x", Null}

\* the value of a promise that has rejected: awaiting it throws
Err == "error"

MaxProm == 2 * MaxCalls

NoReq == [promise |-> 0, type |-> "none"]
NoJoin == -1
NoProm == [kind |-> "none", key |-> "none", phase |-> "free", value |-> Null,
           read |-> Null, loads |-> 0, batch |-> 0]
NoCall == [op |-> "none", key |-> "none", pc |-> "idle", waitOn |-> 0,
           wtype |-> "none", started |-> FALSE, busy |-> {}, result |-> Null,
           joined |-> NoJoin, keys |-> {}, waits |-> {}]

\* Promise 0 stands for Promise.resolve(null) (delete / deleteMany).
PDone(i) == IF i = 0 THEN TRUE ELSE prom[i].phase = "done"
PValue(i) == IF i = 0 THEN Null ELSE prom[i].value

\* The underlying get / getOrLoad / loader invocations of key k still running.
Outstanding(k) ==
    {i \in 1..MaxProm : /\ prom[i].key = k
                        /\ prom[i].kind \in {"get", "getOrLoad", "load"}
                        /\ prom[i].phase # "done"}

\* A call has settled once the promise it returned has (get, set, an own
\* getOrLoad) or once its async body has returned.
CallDone(c) ==
    IF call[c].pc = "ret" THEN PDone(call[c].waitOn) ELSE call[c].pc = "done"

CallResult(c) ==
    IF call[c].pc = "ret" THEN PValue(call[c].waitOn) ELSE call[c].result

CallsOn(k) == {c \in 1..ncall : call[c].key = k}

\* The calls on key k that have been issued and have not settled.
InFlight(k) == {c \in CallsOn(k) : ~CallDone(c)}

InitCoalescing ==
    /\ cstore \in [CKeys -> SetVals \cup {Null}]
    /\ ongoingRequests = [k \in CKeys |-> NoReq]
    /\ prom = [i \in 1..MaxProm |-> NoProm]
    /\ nprom = 0
    /\ call = [c \in 1..MaxCalls |-> NoCall]
    /\ ncall = 0

\* --- get(key) -----------------------------------------------------------
\* Mutant of GetJoin: the "if (ongoingRequest)" test of line 39 is lost and a
\* second underlying get is started.
GetJoin_NoCoalesce(k) ==
    LET c == ncall + 1
        p == nprom + 1 IN
    /\ ongoingRequests[k] # NoReq
    /\ prom' = [prom EXCEPT ![p] = [NoProm EXCEPT !.kind = "get", !.key = k, !.phase = "pending"]]
    /\ nprom' = p
    /\ ongoingRequests' = [ongoingRequests EXCEPT ![k] = [promise |-> p, type |-> "get"]]
    /\ call' = [call EXCEPT ![c] = [NoCall EXCEPT !.op = "get", !.key = k, !.pc = "ret",
                                      !.waitOn = p, !.started = TRUE,
                                      !.busy = InFlight(k)]]
    /\ ncall' = c
    /\ UNCHANGED cstore

GetJoin(k) ==
    LET c == ncall + 1
        req == ongoingRequests[k] IN
    /\ req # NoReq
    /\ call' = [call EXCEPT ![c] = [NoCall EXCEPT !.op = "get", !.key = k, !.pc = "ret",
                                      !.waitOn = req.promise, !.wtype = req.type,
                                      !.busy = InFlight(k), !.joined = req.promise]]
    /\ ncall' = c
    /\ UNCHANGED <<cstore, ongoingRequests, prom, nprom>>

GetStart(k) ==
    LET c == ncall + 1
        p == nprom + 1 IN
    /\ ongoingRequests[k] = NoReq
    /\ prom' = [prom EXCEPT ![p] = [NoProm EXCEPT !.kind = "get", !.key = k, !.phase = "pending"]]
    /\ nprom' = p
    /\ ongoingRequests' = [ongoingRequests EXCEPT ![k] = [promise |-> p, type |-> "get"]]
    /\ call' = [call EXCEPT ![c] = [NoCall EXCEPT !.op = "get", !.key = k, !.pc = "ret",
                                      !.waitOn = p, !.started = TRUE,
                                      !.busy = InFlight(k)]]
    /\ ncall' = c
    /\ UNCHANGED cstore

Get(k) ==
    /\ ncall < MaxCalls
    /\ (GetJoin(k) \/ GetStart(k))

\* --- getOrLoad(key, load) -----------------------------------------------
GetOrLoadStart(k) ==
    LET c == ncall + 1
        p == nprom + 1 IN
    /\ ongoingRequests[k] = NoReq
    /\ prom' = [prom EXCEPT ![p] = [NoProm EXCEPT !.kind = "getOrLoad", !.key = k, !.phase = "pending"]]
    /\ nprom' = p
    /\ ongoingRequests' = [ongoingRequests EXCEPT ![k] = [promise |-> p, type |-> "getOrLoad"]]
    /\ call' = [call EXCEPT ![c] = [NoCall EXCEPT !.op = "getOrLoad", !.key = k, !.pc = "ret",
                                      !.waitOn = p, !.started = TRUE,
                                      !.busy = InFlight(k)]]
    /\ ncall' = c
    /\ UNCHANGED cstore

GetOrLoadJoin(k) ==
    LET c == ncall + 1
        req == ongoingRequests[k] IN
    /\ req # NoReq
    /\ call' = [call EXCEPT ![c] = [NoCall EXCEPT !.op = "getOrLoad", !.key = k,
                                      !.pc = "awaitOngoing",
                                      !.waitOn = req.promise, !.wtype = req.type,
                                      !.busy = InFlight(k), !.joined = req.promise]]
    /\ ncall' = c
    /\ UNCHANGED <<cstore, ongoingRequests, prom, nprom>>

GetOrLoad(k) ==
    /\ ncall < MaxCalls
    /\ (GetOrLoadStart(k) \/ GetOrLoadJoin(k))

\* Mutant of GetOrLoadResume: the "ongoingRequest.type === 'getOrLoad'" test
\* of line 72 is lost, so an absent result of an ongoing load is loaded again.
GetOrLoadResume_NoTypeTest(c) ==
    LET k == call[c].key
        request == PValue(call[c].waitOn)
        p == nprom + 1 IN
    /\ call[c].pc = "awaitOngoing"
    /\ PDone(call[c].waitOn)
    /\ IF request # Null
       THEN /\ call' = [call EXCEPT ![c].pc = "done", ![c].result = request]
            /\ UNCHANGED <<cstore, ongoingRequests, prom, nprom, ncall>>
       ELSE /\ prom' = [prom EXCEPT ![p] = [NoProm EXCEPT !.kind = "load", !.key = k, !.phase = "pending", !.loads = 1]]
            /\ nprom' = p
            /\ ongoingRequests' = [ongoingRequests EXCEPT ![k] = [promise |-> p, type |-> "getOrLoad"]]
            /\ call' = [call EXCEPT ![c].pc = "awaitLoad", ![c].waitOn = p, ![c].started = TRUE]
            /\ UNCHANGED <<cstore, ncall>>

\* Mutant of GetOrLoadResume: a miss of the ongoing get is returned as it is,
\* the loader of line 81 is never called.
GetOrLoadResume_NoLoad(c) ==
    /\ call[c].pc = "awaitOngoing"
    /\ PDone(call[c].waitOn)
    /\ call' = [call EXCEPT ![c].pc = "done", ![c].result = PValue(call[c].waitOn)]
    /\ UNCHANGED <<cstore, ongoingRequests, prom, nprom, ncall>>

\* Mutant of GetOrLoadResume: the rejection of the ongoing request is caught
\* and treated as a miss.
GetOrLoadResume_CatchesError(c) ==
    LET k == call[c].key
        request == PValue(call[c].waitOn)
        p == nprom + 1 IN
    /\ call[c].pc = "awaitOngoing"
    /\ PDone(call[c].waitOn)
    /\ IF request \notin {Null, Err} \/ call[c].wtype = "getOrLoad"
       THEN /\ call' = [call EXCEPT ![c].pc = "done", ![c].result = request]
            /\ UNCHANGED <<cstore, ongoingRequests, prom, nprom, ncall>>
       ELSE /\ prom' = [prom EXCEPT ![p] = [NoProm EXCEPT !.kind = "load", !.key = k, !.phase = "pending", !.loads = 1]]
            /\ nprom' = p
            /\ ongoingRequests' = [ongoingRequests EXCEPT ![k] = [promise |-> p, type |-> "getOrLoad"]]
            /\ call' = [call EXCEPT ![c].pc = "awaitLoad", ![c].waitOn = p, ![c].started = TRUE]
            /\ UNCHANGED <<cstore, ncall>>

\* getOrLoad after "await ongoingRequest.promise" (lines 69-83); the await of
\* a rejected promise throws and the call rejects with that error
GetOrLoadResume(c) ==
    LET k == call[c].key
        request == PValue(call[c].waitOn)
        p == nprom + 1 IN
    /\ call[c].pc = "awaitOngoing"
    /\ PDone(call[c].waitOn)
    /\ IF request = Err \/ request # Null \/ call[c].wtype = "getOrLoad"
       THEN /\ call' = [call EXCEPT ![c].pc = "done", ![c].result = request]
            /\ UNCHANGED <<cstore, ongoingRequests, prom, nprom, ncall>>
       ELSE /\ prom' = [prom EXCEPT ![p] = [NoProm EXCEPT !.kind = "load", !.key = k, !.phase = "pending", !.loads = 1]]
            /\ nprom' = p
            /\ ongoingRequests' = [ongoingRequests EXCEPT ![k] = [promise |-> p, type |-> "getOrLoad"]]
            /\ call' = [call EXCEPT ![c].pc = "awaitLoad", ![c].waitOn = p, ![c].started = TRUE]
            /\ UNCHANGED <<cstore, ncall>>

\* getOrLoad after "request = await promise" (lines 86-95); when the loader
\* rejected, the finally removes the record and the call rejects
GetOrLoadLoaded(c) ==
    LET k == call[c].key
        request == PValue(call[c].waitOn) IN
    /\ call[c].pc = "awaitLoad"
    /\ PDone(call[c].waitOn)
    /\ IF request \notin {Null, Err}
       THEN /\ call' = [call EXCEPT ![c].pc = "awaitSet", ![c].result = request]
            /\ UNCHANGED <<cstore, ongoingRequests, prom, nprom, ncall>>
       ELSE /\ ongoingRequests' = [ongoingRequests EXCEPT ![k] = NoReq]
            /\ call' = [call EXCEPT ![c].pc = "done", ![c].result = request]
            /\ UNCHANGED <<cstore, prom, nprom, ncall>>

\* getOrLoad after "await this.cache.set(key, request, options)" (lines 90-97)
GetOrLoadStored(c) ==
    LET k == call[c].key IN
    /\ call[c].pc = "awaitSet"
    /\ cstore' = [cstore EXCEPT ![k] = call[c].result]
    /\ ongoingRequests' = [ongoingRequests EXCEPT ![k] = NoReq]
    /\ call' = [call EXCEPT ![c].pc = "done"]
    /\ UNCHANGED <<prom, nprom, ncall>>

\* --- set(key, value) ----------------------------------------------------
Set(k, v) ==
    LET c == ncall + 1
        p == nprom + 1 IN
    /\ ncall < MaxCalls
    /\ prom' = [prom EXCEPT ![p] = [NoProm EXCEPT !.kind = "set", !.key = k, !.phase = "pending", !.value = v]]
    /\ nprom' = p
    /\ ongoingRequests' = [ongoingRequests EXCEPT ![k] = [promise |-> p, type |-> "getOrLoad"]]
    /\ call' = [call EXCEPT ![c] = [NoCall EXCEPT !.op = "set", !.key = k, !.pc = "ret",
                                      !.waitOn = p, !.busy = InFlight(k)]]
    /\ ncall' = c
    /\ UNCHANGED cstore

\* --- delete(key) --------------------------------------------------------
Delete(k) ==
    LET c == ncall + 1 IN
    /\ ncall < MaxCalls
    /\ ongoingRequests' = [ongoingRequests EXCEPT ![k] = [promise |-> 0, type |-> "get"]]
    /\ call' = [call EXCEPT ![c] = [NoCall EXCEPT !.op = "delete", !.key = k, !.pc = "awaitDel",
                                      !.busy = InFlight(k)]]
    /\ ncall' = c
    /\ UNCHANGED <<cstore, prom, nprom>>

DeleteSettle(c) ==
    LET k == call[c].key IN
    /\ call[c].pc = "awaitDel"
    /\ cstore' = [cstore EXCEPT ![k] = Null]
    /\ ongoingRequests' = [ongoingRequests EXCEPT ![k] = NoReq]
    /\ call' = [call EXCEPT ![c].pc = "done"]
    /\ UNCHANGED <<prom, nprom, ncall>>

\* --- the wrapped cache and the loaders settle ---------------------------
\* this.cache.get(key) settles; then the .finally of line 51 runs
UGetSettle(i) ==
    LET k == prom[i].key IN
    /\ prom[i].kind = "get"
    /\ prom[i].phase = "pending"
    /\ prom' = [prom EXCEPT ![i].phase = "done", ![i].value = cstore[k]]
    /\ ongoingRequests' = [ongoingRequests EXCEPT ![k] = NoReq]
    /\ UNCHANGED <<cstore, nprom, call, ncall>>

\* this.cache.getOrLoad: BaseCache.getOrLoad reads the key (base/index.ts 26-36)
UGetOrLoadRead(i) ==
    LET k == prom[i].key IN
    /\ prom[i].kind = "getOrLoad"
    /\ prom[i].phase = "pending"
    /\ IF cstore[k] # Null
       THEN /\ prom' = [prom EXCEPT ![i].phase = "done", ![i].value = cstore[k],
                                    ![i].read = cstore[k]]
            /\ ongoingRequests' = [ongoingRequests EXCEPT ![k] = NoReq]
       ELSE /\ prom' = [prom EXCEPT ![i].phase = "loading", ![i].loads = @ + 1]
            /\ UNCHANGED ongoingRequests
    /\ UNCHANGED <<cstore, nprom, call, ncall>>

\* BaseCache.getOrLoad: the loader settles with v (base/index.ts 36)
UGetOrLoadLoaded(i, v) ==
    /\ prom[i].kind = "getOrLoad"
    /\ prom[i].phase = "loading"
    /\ prom' = [prom EXCEPT ![i].phase = "storing", ![i].value = v]
    /\ UNCHANGED <<cstore, ongoingRequests, nprom, call, ncall>>

\* BaseCache.getOrLoad: set settles and the call returns (base/index.ts 38-40);
\* then the .finally of line 65 runs
UGetOrLoadStored(i) ==
    LET k == prom[i].key IN
    /\ prom[i].kind = "getOrLoad"
    /\ prom[i].phase = "storing"
    /\ cstore' = [cstore EXCEPT ![k] = prom[i].value]
    /\ prom' = [prom EXCEPT ![i].phase = "done"]
    /\ ongoingRequests' = [ongoingRequests EXCEPT ![k] = NoReq]
    /\ UNCHANGED <<nprom, call, ncall>>

\* the loader called at line 81 settles with v
LoadSettle(i, v) ==
    /\ prom[i].kind = "load"
    /\ prom[i].phase = "pending"
    /\ prom' = [prom EXCEPT ![i].phase = "done", ![i].value = v]
    /\ UNCHANGED <<cstore, ongoingRequests, nprom, call, ncall>>

\* this.cache.set settles: promise.then(() => value) resolves, then the
\* .finally of line 110 runs
SetSettle(i) ==
    LET k == prom[i].key IN
    /\ prom[i].kind = "set"
    /\ prom[i].phase = "pending"
    /\ cstore' = [cstore EXCEPT ![k] = prom[i].value]
    /\ prom' = [prom EXCEPT ![i].phase = "done"]
    /\ ongoingRequests' = [ongoingRequests EXCEPT ![k] = NoReq]
    /\ UNCHANGED <<nprom, call, ncall>>

\* this.cache.get or this.cache.getOrLoad rejects, at any of its steps; then
\* the .finally of line 51 or 65 runs
UFail(i) ==
    LET k == prom[i].key IN
    /\ prom[i].kind \in {"get", "getOrLoad"}
    /\ prom[i].phase \in {"pending", "loading", "storing"}
    /\ prom' = [prom EXCEPT ![i].phase = "done", ![i].value = Err]
    /\ ongoingRequests' = [ongoingRequests EXCEPT ![k] = NoReq]
    /\ UNCHANGED <<cstore, nprom, call, ncall>>

\* the loader called at line 81 rejects
LoadFail(i) ==
    /\ prom[i].kind = "load"
    /\ prom[i].phase = "pending"
    /\ prom' = [prom EXCEPT ![i].phase = "done", ![i].value = Err]
    /\ UNCHANGED <<cstore, ongoingRequests, nprom, call, ncall>>

\* this.cache.set rejects: the record's promise.then(() => value) rejects
\* with it, then the .finally of line 110 runs
SetFail(i) ==
    LET k == prom[i].key IN
    /\ prom[i].kind = "set"
    /\ prom[i].phase = "pending"
    /\ prom' = [prom EXCEPT ![i].phase = "done", ![i].value = Err]
    /\ ongoingRequests' = [ongoingRequests EXCEPT ![k] = NoReq]
    /\ UNCHANGED <<cstore, nprom, call, ncall>>

\* this.cache.delete rejects; the finally of line 124 runs
DeleteFail(c) ==
    LET k == call[c].key IN
    /\ call[c].pc = "awaitDel"
    /\ ongoingRequests' = [ongoingRequests EXCEPT ![k] = NoReq]
    /\ call' = [call EXCEPT ![c].pc = "done", ![c].result = Err]
    /\ UNCHANGED <<cstore, prom, nprom, ncall>>

\* the this.cache.set of line 90 rejects; the finally of line 94 runs
GetOrLoadStoreFail(c) ==
    LET k == call[c].key IN
    /\ call[c].pc = "awaitSet"
    /\ ongoingRequests' = [ongoingRequests EXCEPT ![k] = NoReq]
    /\ call' = [call EXCEPT ![c].pc = "done", ![c].result = Err]
    /\ UNCHANGED <<cstore, prom, nprom, ncall>>

\* --- getMany / setMany / deleteMany (lines 128-201) ---------------------
KeyNo == [k \in CKeys |-> IF k = "k1" THEN 1 ELSE 2]

\* the promise created for key k when the keys of S each get one, in order
ItemId(k, S) == nprom + Cardinality({j \in S : KeyNo[j] <= KeyNo[k]})

\* the item promises of the batch call c
Batch(c) == {i \in 1..MaxProm : prom[i].batch = c}

\* getMany: the keys with a record join it, the others share one underlying
\* getMany; each gets the record { itemPromise, 'get' } (lines 132-158)
GetMany(K) ==
    LET c == ncall + 1
        remainingKeys == {k \in K : ongoingRequests[k] = NoReq}
        found == {ongoingRequests[k].promise : k \in K \ remainingKeys}
        own == {ItemId(k, remainingKeys) : k \in remainingKeys} IN
    /\ ncall < MaxCalls
    /\ prom' = [i \in 1..MaxProm |->
                  IF \E k \in remainingKeys : i = ItemId(k, remainingKeys)
                  THEN LET k == CHOOSE j \in remainingKeys : i = ItemId(j, remainingKeys) IN
                       [NoProm EXCEPT !.kind = "getMany", !.key = k,
                                      !.phase = "pending", !.batch = c]
                  ELSE prom[i]]
    /\ nprom' = nprom + Cardinality(remainingKeys)
    /\ ongoingRequests' = [k \in CKeys |->
                  IF k \in remainingKeys
                  THEN [promise |-> ItemId(k, remainingKeys), type |-> "get"]
                  ELSE ongoingRequests[k]]
    /\ call' = [call EXCEPT ![c] = [NoCall EXCEPT !.op = "getMany", !.keys = K,
                                      !.pc = "awaitMany", !.waits = found \cup own,
                                      !.started = remainingKeys # {}]]
    /\ ncall' = c
    /\ UNCHANGED cstore

\* this.cache.getMany settles: every item promise resolves to data[key] and
\* its .finally of line 150 runs; ok = FALSE when it rejects
UGetManySettle(c, ok) ==
    /\ \E i \in Batch(c) : prom[i].phase = "pending"
    /\ prom' = [i \in 1..MaxProm |->
                  IF i \in Batch(c)
                  THEN [prom[i] EXCEPT !.phase = "done",
                                       !.value = IF ok THEN cstore[prom[i].key] ELSE Err]
                  ELSE prom[i]]
    /\ ongoingRequests' = [k \in CKeys |->
                  IF \E i \in Batch(c) : prom[i].key = k THEN NoReq ELSE ongoingRequests[k]]
    /\ UNCHANGED <<cstore, nprom, call, ncall>>

\* getMany after "await Promise.all(...)" (lines 161-165): all the items
\* have resolved, or one of them has rejected
GetManyReturn(c) ==
    LET failed == \E i \in call[c].waits : PDone(i) /\ PValue(i) = Err IN
    /\ call[c].pc = "awaitMany"
    /\ failed \/ \A i \in call[c].waits : PDone(i)
    /\ call' = [call EXCEPT ![c].pc = "done", ![c].result = IF failed THEN Err ELSE Null]
    /\ UNCHANGED <<cstore, ongoingRequests, prom, nprom, ncall>>

\* setMany: one underlying setMany, whose promise is returned as it is; each
\* key gets the record { promise.then(() => value).finally(...), 'getOrLoad' }
SetMany(K, v) ==
    LET c == ncall + 1 IN
    /\ ncall < MaxCalls
    /\ prom' = [i \in 1..MaxProm |->
                  IF \E k \in K : i = ItemId(k, K)
                  THEN LET k == CHOOSE j \in K : i = ItemId(j, K) IN
                       [NoProm EXCEPT !.kind = "setMany", !.key = k, !.value = v,
                                      !.phase = "pending", !.batch = c]
                  ELSE prom[i]]
    /\ nprom' = nprom + Cardinality(K)
    /\ ongoingRequests' = [k \in CKeys |->
                  IF k \in K THEN [promise |-> ItemId(k, K), type |-> "getOrLoad"]
                  ELSE ongoingRequests[k]]
    /\ call' = [call EXCEPT ![c] = [NoCall EXCEPT !.op = "setMany", !.keys = K,
                                      !.pc = "awaitSetMany"]]
    /\ ncall' = c
    /\ UNCHANGED cstore

\* this.cache.setMany settles (ok = FALSE: rejects). The promise the caller
\* holds is the underlying one, so the call settles here; the reactions of
\* the records' then / finally chains are queued behind it.
USetManySettle(c, ok) ==
    /\ call[c].pc = "awaitSetMany"
    /\ cstore' = [k \in CKeys |->
                  IF ok /\ k \in call[c].keys
                  THEN prom[CHOOSE i \in Batch(c) : prom[i].key = k].value
                  ELSE cstore[k]]
    /\ prom' = [i \in 1..MaxProm |->
                  IF i \in Batch(c)
                  THEN [prom[i] EXCEPT !.phase = "chained",
                                       !.value = IF ok THEN @ ELSE Err]
                  ELSE prom[i]]
    /\ call' = [call EXCEPT ![c].pc = "done", ![c].result = IF ok THEN Null ELSE Err]
    /\ UNCHANGED <<ongoingRequests, nprom, ncall>>

\* the record's promise of a setMany key settles: the .finally of line 175
\* deletes the key's record
SetManyChain(i) ==
    LET k == prom[i].key IN
    /\ prom[i].kind = "setMany"
    /\ prom[i].phase = "chained"
    /\ prom' = [prom EXCEPT ![i].phase = "done"]
    /\ ongoingRequests' = [ongoingRequests EXCEPT ![k] = NoReq]
    /\ UNCHANGED <<cstore, nprom, call, ncall>>

\* deleteMany: the records of lines 187-192, then "await deleteMany"
DeleteMany(K) ==
    LET c == ncall + 1 IN
    /\ ncall < MaxCalls
    /\ ongoingRequests' = [k \in CKeys |->
                  IF k \in K THEN [promise |-> 0, type |-> "get"] ELSE ongoingRequests[k]]
    /\ call' = [call EXCEPT ![c] = [NoCall EXCEPT !.op = "deleteMany", !.keys = K,
                                      !.pc = "awaitDelMany"]]
    /\ ncall' = c
    /\ UNCHANGED <<cstore, prom, nprom>>

\* this.cache.deleteMany settles (ok = FALSE: rejects); the finally of lines
\* 195-199 runs
DeleteManySettle(c, ok) ==
    /\ call[c].pc = "awaitDelMany"
    /\ cstore' = [k \in CKeys |-> IF ok /\ k \in call[c].keys THEN Null ELSE cstore[k]]
    /\ ongoingRequests' = [k \in CKeys |->
                  IF k \in call[c].keys THEN NoReq ELSE ongoingRequests[k]]
    /\ call' = [call EXCEPT ![c].pc = "done", ![c].result = IF ok THEN Null ELSE Err]
    /\ UNCHANGED <<prom, nprom, ncall>>

\* ========================================================================
\*  PART 2 - TaggingCache over a wrapped cache
\* ========================================================================
\* The wrapped cache executes each of its operations (get, set, delete,
\* getMany, setMany) atomically; the entries outlive the horizon of the
\* model, and so do the tag markers except under SpecTaggingExpiry, where
\* tagTTL can run out.
VARIABLES
    tnow,       \* Date.now()
    tstore,     \* the wrapped cache, entries: key -> TaggedValue or NoEntry
    markers,    \* the wrapped cache, tag markers: tag -> timestamp or Absent
    task,       \* the asynchronous calls in progress, one per task slot
    tops,       \* number of calls issued so far
    invalidated \* history: the keys whose entry was stored before a completed
                \* invalidation of one of its tags was issued

tagVars == <<tnow, tstore, markers, task, tops, invalidated>>

TKeys == {"key1", "key2"}
Tags == {"tagA", "tagB"}
Tasks == 1..NTasks
SetVal == 1
LoadVal == 2

Absent == -1
NoVal == 0
NoEntry == [v |-> NoVal, d |-> 0, t |-> {}]
NoMarks == [t \in Tags |-> Absent]

\* the write of markers made by a call: how many, by which operation of the
\* wrapped cache, with which ttl option
TagTTL == "tagTTL"
NoWrite == [n |-> 0, op |-> "none", ttl |-> "none"]
NoTask == [op |-> "none", pc |-> "idle", keys |-> {}, tags |-> {}, now |-> 0,
           val |-> NoVal, entry |-> NoEntry, cur |-> NoMarks, seen |-> NoMarks,
           after |-> "none", loads |-> 0, result |-> NoVal,
           stored |-> NoEntry, mustMiss |-> FALSE, covers |-> {}, prevSet |-> NoVal,
           wrote |-> NoWrite]

\* JavaScript truthiness of a marker read from the cache: null and 0 are falsy
Falsy(ts) == ts = Absent \/ ts = 0

\* Mutant of IsItemExpired: a marker that is missing does not expire the entry.
IsItemExpired_MissingIsFresh(tags, timestamp, tagsExpirations) ==
    /\ tags # {}
    /\ \E tag \in tags :
          ~Falsy(tagsExpirations[tag]) /\ tagsExpirations[tag] > timestamp

\* Mutant of IsItemExpired: ">=" instead of ">" at line 481.
IsItemExpired_Geq(tags, timestamp, tagsExpirations) ==
    /\ tags # {}
    /\ \E tag \in tags :
          Falsy(tagsExpirations[tag]) \/ tagsExpirations[tag] >= timestamp

\* TaggingCache.isItemExpired, given the markers its getMany has read
IsItemExpired(tags, timestamp, tagsExpirations) ==
    /\ tags # {}
    /\ \E tag \in tags :
          Falsy(tagsExpirations[tag]) \/ tagsExpirations[tag] > timestamp

\* TaggingCache.refreshTags: the markers after its setMany of newTimestamps
NewTimestamps(tags, timestamp, currentTimestamps) ==
    [t \in Tags |-> IF t \in tags
                    THEN (IF Falsy(currentTimestamps[t]) THEN timestamp ELSE currentTimestamps[t])
                    ELSE markers[t]]

InitTagging ==
    /\ tnow = 1
    /\ tstore = [k \in TKeys |-> NoEntry]
    /\ markers = NoMarks
    /\ task = [p \in Tasks |-> NoTask]
    /\ tops = 0
    /\ invalidated = {}

Free(p) == task[p].pc \in {"idle", "done"}

\* history: the entries of the keys K are replaced, so an invalidation issued
\* before does not cover them
Overwritten(tk, K) == [q \in Tasks |-> [tk[q] EXCEPT !.covers = @ \ K]]

\* a new call takes the first free task slot
Slot(p) == Free(p) /\ \A q \in Tasks : q < p => ~Free(q)

AllFree == \A p \in Tasks : Free(p)

\* a call settles: only what its caller and the properties observe is kept
Finish(t, r) ==
    [NoTask EXCEPT !.op = t.op, !.pc = "done", !.keys = t.keys, !.tags = t.tags,
                   !.now = t.now, !.val = t.val, !.entry = t.entry, !.seen = t.seen,
                   !.loads = t.loads, !.stored = t.stored, !.mustMiss = t.mustMiss,
                   !.prevSet = t.prevSet, !.wrote = t.wrote, !.result = r]

Tick ==
    /\ tnow < MaxTime
    /\ tnow' = tnow + 1
    /\ UNCHANGED <<tstore, markers, task, tops, invalidated>>

\* --- set / setMany (lines 322-329, 359-371) -----------------------------
StartWrite(p, op, K, tags) ==
    /\ Slot(p)
    /\ tops < MaxTagOps
    /\ tops' = tops + 1
    /\ task' = [task EXCEPT ![p] = [NoTask EXCEPT !.op = op, !.keys = K, !.tags = tags,
                   !.now = tnow, !.val = SetVal,
                   !.pc = IF tags = {} THEN "setWrite" ELSE "refreshRead",
                   !.after = "setWrite"]]
    /\ UNCHANGED <<tnow, tstore, markers, invalidated>>

TSet(p, k, tags) == StartWrite(p, "set", {k}, tags)

TSetMany(p, K, tags) == StartWrite(p, "setMany", K, tags)

\* refreshTags: "await this.cache.getMany(keys)" (line 453)
RefreshRead(p) ==
    /\ task[p].pc = "refreshRead"
    /\ task' = [task EXCEPT ![p].pc = "refreshWrite", ![p].cur = markers]
    /\ UNCHANGED <<tnow, tstore, markers, tops, invalidated>>

\* refreshTags: "await this.cache.setMany(newTimestamps, ...)" (lines 456-460)
RefreshWrite(p) ==
    /\ task[p].pc = "refreshWrite"
    /\ markers' = NewTimestamps(task[p].tags, task[p].now, task[p].cur)
    /\ task' = [task EXCEPT ![p] =
                   IF task[p].after = "done"
                   THEN Finish(task[p], task[p].val)
                   ELSE [task[p] EXCEPT !.pc = task[p].after, !.cur = NoMarks]]
    /\ UNCHANGED <<tnow, tstore, tops, invalidated>>

\* "await this.cache.set / setMany" of the tagged values (lines 328, 370)
SetWrite(p) ==
    LET e == [v |-> task[p].val, d |-> task[p].now, t |-> task[p].tags] IN
    /\ task[p].pc = "setWrite"
    /\ tstore' = [k \in TKeys |-> IF k \in task[p].keys THEN e ELSE tstore[k]]
    /\ task' = Overwritten([task EXCEPT ![p] = Finish([task[p] EXCEPT !.stored = e], NoVal)], task[p].keys)
    /\ invalidated' = invalidated \ task[p].keys
    /\ UNCHANGED <<tnow, markers, tops>>

\* --- invalidateTag / invalidateTags (lines 414-436) ---------------------
StartInvalidate(p, op, T) ==
    /\ Slot(p)
    /\ tops < MaxTagOps
    /\ tops' = tops + 1
    /\ task' = [task EXCEPT ![p] = [NoTask EXCEPT !.op = op, !.tags = T, !.now = tnow,
                   !.pc = "invWrite",
                   !.covers = {k \in TKeys : tstore[k].t \cap T # {}}]]
    /\ UNCHANGED <<tnow, tstore, markers, invalidated>>

InvalidateTag(p, t) == StartInvalidate(p, "invalidateTag", {t})

InvalidateTags(p, T) == StartInvalidate(p, "invalidateTags", T)

\* "this.cache.set(..., Date.now(), { ttl: this.tagTTL })" of invalidateTag
\* (line 417), "this.cache.setMany(data, { ttl: this.tagTTL })" of
\* invalidateTags (line 435)
MarkerWrite(op) ==
    [n |-> 1, op |-> IF op = "invalidateTag" THEN "set" ELSE "setMany", ttl |-> TagTTL]

\* Mutant of InvalidateWrite: the entries carrying one of the tags are deleted.
InvalidateWrite_Scans(p) ==
    /\ task[p].pc = "invWrite"
    /\ markers' = [t \in Tags |-> IF t \in task[p].tags THEN task[p].now ELSE markers[t]]
    /\ tstore' = [k \in TKeys |-> IF tstore[k].t \cap task[p].tags # {} THEN NoEntry ELSE tstore[k]]
    /\ invalidated' = invalidated \cup task[p].covers
    /\ task' = [task EXCEPT ![p] =
                   Finish([task[p] EXCEPT !.wrote = MarkerWrite(task[p].op)], NoVal)]
    /\ UNCHANGED <<tnow, tops>>

\* the set / setMany of the markers settles
InvalidateWrite(p) ==
    /\ task[p].pc = "invWrite"
    /\ markers' = [t \in Tags |-> IF t \in task[p].tags THEN task[p].now ELSE markers[t]]
    /\ invalidated' = invalidated \cup task[p].covers
    /\ task' = [task EXCEPT ![p] =
                   Finish([task[p] EXCEPT !.wrote = MarkerWrite(task[p].op)], NoVal)]
    /\ UNCHANGED <<tnow, tstore, tops>>

\* tagTTL has run out for the marker of tag t: the wrapped cache drops it
MarkerExpire(t) ==
    /\ markers[t] # Absent
    /\ markers' = [markers EXCEPT ![t] = Absent]
    /\ UNCHANGED <<tnow, tstore, task, tops, invalidated>>

\* --- get (lines 304-320); getMany([key]) runs the same steps (335-357) ---
\* history: the value of the set of key k that held slot p and has completed,
\* if no call is in progress
TPrevSet(p, k) ==
    IF AllFree /\ task[p].op = "set" /\ task[p].pc = "done" /\ task[p].keys = {k}
    THEN task[p].val ELSE NoVal

TGet(p, k) ==
    LET value == tstore[k]
        t0 == [NoTask EXCEPT !.op = "get", !.keys = {k}, !.entry = value,
                             !.mustMiss = (k \in invalidated),
                             !.prevSet = TPrevSet(p, k)] IN
    /\ Slot(p)
    /\ tops < MaxTagOps
    /\ tops' = tops + 1
    /\ task' = [task EXCEPT ![p] =
          IF value = NoEntry THEN Finish(t0, NoVal)
          ELSE IF value.t = {} THEN Finish(t0, value.v)
          ELSE [t0 EXCEPT !.pc = "expRead"]]
    /\ UNCHANGED <<tnow, tstore, markers, invalidated>>

\* isItemExpired: "await this.cache.getMany(keys)" and the loop (lines 476-486)
ExpRead(p) ==
    LET t1 == [task[p] EXCEPT !.seen = markers] IN
    /\ task[p].pc = "expRead"
    /\ task' = [task EXCEPT ![p] =
          IF IsItemExpired(task[p].entry.t, task[p].entry.d, markers)
          THEN [t1 EXCEPT !.pc = "getDelete"]
          ELSE Finish(t1, task[p].entry.v)]
    /\ UNCHANGED <<tnow, tstore, markers, tops, invalidated>>

\* "await this.cache.delete(key); return null" (lines 314-316)
GetDelete(p) ==
    /\ task[p].pc = "getDelete"
    /\ tstore' = [k \in TKeys |-> IF k \in task[p].keys THEN NoEntry ELSE tstore[k]]
    /\ task' = Overwritten([task EXCEPT ![p] = Finish(task[p], NoVal)], task[p].keys)
    /\ invalidated' = invalidated \ task[p].keys
    /\ UNCHANGED <<tnow, markers, tops>>

\* --- getOrLoad (lines 377-407) over BaseCache.getOrLoad -----------------
\* the call and the get of BaseCache.getOrLoad (base/index.ts 26-36): a hit
\* goes to the expiry test of line 396, a miss calls loadWithTags
TGetOrLoad(p, k, tags) ==
    LET value == tstore[k]
        t0 == [NoTask EXCEPT !.op = "getOrLoad", !.keys = {k}, !.tags = tags,
                             !.now = tnow, !.entry = value,
                             !.mustMiss = (k \in invalidated)] IN
    /\ Slot(p)
    /\ tops < MaxTagOps
    /\ tops' = tops + 1
    /\ task' = [task EXCEPT ![p] =
          IF value = NoEntry
          THEN [t0 EXCEPT !.pc = "golLoading", !.loads = 1, !.after = "golStore1"]
          ELSE IF value.t = {} THEN Finish(t0, value.v)
          ELSE [t0 EXCEPT !.pc = "golExpRead"]]
    /\ UNCHANGED <<tnow, tstore, markers, invalidated>>

\* Mutant of GolExpRead: an expired entry is returned instead of reloaded.
GolExpRead_ReturnStale(p) ==
    LET t1 == [task[p] EXCEPT !.seen = markers] IN
    /\ task[p].pc = "golExpRead"
    /\ task' = [task EXCEPT ![p] = Finish(t1, task[p].entry.v)]
    /\ UNCHANGED <<tnow, tstore, markers, tops, invalidated>>

\* line 396: "!hasLoaded && await this.isItemExpired(value.t, value.d)";
\* an expired entry calls loadWithTags (line 400)
GolExpRead(p) ==
    LET t1 == [task[p] EXCEPT !.seen = markers] IN
    /\ task[p].pc = "golExpRead"
    /\ task' = [task EXCEPT ![p] =
          IF IsItemExpired(task[p].entry.t, task[p].entry.d, markers)
          THEN [t1 EXCEPT !.pc = "golLoading", !.loads = @ + 1, !.after = "golStore2"]
          ELSE Finish(t1, task[p].entry.v)]
    /\ UNCHANGED <<tnow, tstore, markers, tops, invalidated>>

\* loadWithTags: the loader settles (line 384), refreshTags follows (line 386)
GolLoaded(p) ==
    /\ task[p].pc = "golLoading"
    /\ task' = [task EXCEPT ![p].val = LoadVal,
                            ![p].pc = IF task[p].tags = {} THEN task[p].after ELSE "refreshRead"]
    /\ UNCHANGED <<tnow, tstore, markers, tops, invalidated>>

\* BaseCache.getOrLoad stores the loaded envelope and returns it
\* (base/index.ts 38-40); hasLoaded is true, so line 396 is skipped
GolStore1(p) ==
    LET e == [v |-> task[p].val, d |-> task[p].now, t |-> task[p].tags] IN
    /\ task[p].pc = "golStore1"
    /\ tstore' = [k \in TKeys |-> IF k \in task[p].keys THEN e ELSE tstore[k]]
    /\ task' = Overwritten([task EXCEPT ![p] = Finish([task[p] EXCEPT !.stored = e], task[p].val)], task[p].keys)
    /\ invalidated' = invalidated \ task[p].keys
    /\ UNCHANGED <<tnow, markers, tops>>

\* "await this.cache.set(key, value, options)" of line 402, then the
\* refreshTags of line 403
GolStore2(p) ==
    LET e == [v |-> task[p].val, d |-> task[p].now, t |-> task[p].tags]
        t1 == [task[p] EXCEPT !.stored = e] IN
    /\ task[p].pc = "golStore2"
    /\ tstore' = [k \in TKeys |-> IF k \in task[p].keys THEN e ELSE tstore[k]]
    /\ task' = Overwritten([task EXCEPT ![p] =
          IF task[p].tags = {}
          THEN Finish(t1, task[p].val)
          ELSE [t1 EXCEPT !.pc = "refreshRead", !.after = "done"]], task[p].keys)
    /\ invalidated' = invalidated \ task[p].keys
    /\ UNCHANGED <<tnow, markers, tops>>


\* ========================================================================
\*  PART 3 - SWRCache over a wrapped cache (BaseCache.getOrLoad)
\* ========================================================================
VARIABLES
    snow,          \* Date.now(), in milliseconds
    sstore,        \* the wrapped cache: key -> what it holds (with the time its TTL ends) or NoItem
    revalidating,  \* SWRCache.revalidating: the keys of the map
    bg,            \* the background refreshes started by getOrLoad, by id
    scall,         \* the SWRCache calls in progress, one per slot
    sops,          \* number of calls issued so far
    writer,        \* history: which operation wrote the entry a key holds, and when
    failed,        \* history: the last refresh of the key failed and none was started since
    unhandled      \* a promise was rejected with no rejection handler attached

swrVars == <<snow, sstore, revalidating, bg, scall, sops, writer, failed, unhandled>>

SKeys == {"key1", "key2"}
SSlots == 1..NSlots
DefaultTTL == 1
OptTTL == 2
StaleTTL == 1
MsPerSecond == 1000
TickMs == 500
StartMs == 1000
OldData == 1
NewData == 2
Undef == -1

\* "options.ttl || this.defaultTTL" (lines 182, 212, 247); 0 is no option
TTLOpts == {0, OptTTL}

Ttl(opt) == IF opt = 0 THEN DefaultTTL ELSE opt

NoItem == [data |-> 0, expiresAt |-> 0, gone |-> 0, raw |-> 0]
NoBg == [key |-> "none", phase |-> "free", item |-> NoItem, ttl |-> 0, loadedAt |-> 0]
NoWriter == [by |-> "none", made |-> 0, at |-> 0, ttl |-> 0]
NoSCall == [op |-> "none", pc |-> "idle", key |-> "none", keys |-> {}, item |-> NoItem,
            ttl |-> 0, hit |-> FALSE, loads |-> 0, wrote |-> FALSE, cmp |-> "none",
            stale |-> FALSE, sawReval |-> FALSE, started |-> FALSE, result |-> 0,
            with |-> {}, src |-> "none", afterFail |-> FALSE, prevSet |-> 0]

\* the CachedItem built at Date.now() = t with the given ttl (lines 188-191, 213-216)
Item(data, t, ttl) ==
    [data |-> data, expiresAt |-> t + ttl * MsPerSecond, gone |-> 0, raw |-> 0]

\* a bare value v held by the wrapped cache: read as a CachedItem, its data
\* and expiresAt are undefined
Raw(v) == [data |-> Undef, expiresAt |-> Undef, gone |-> 0, raw |-> v]

\* what the wrapped cache holds after a set at time t with ttl + staleTTL (185, 219, 259)
KeptAt(item, ttl, t) == [item EXCEPT !.gone = t + (ttl + StaleTTL) * MsPerSecond]

Kept(item, ttl) == KeptAt(item, ttl, snow)

\* the entry of the wrapped cache at the current time
Stored(k) == IF sstore[k] # NoItem /\ snow < sstore[k].gone THEN sstore[k] ELSE NoItem

\* this.cache.get(key): the value of the entry, NoItem for null
Got(k) == [Stored(k) EXCEPT !.gone = 0]

\* "item.expiresAt < Date.now()" (line 196); an undefined expiresAt compares false
IsStale(item) == item.expiresAt # Undef /\ item.expiresAt < snow

\* history: Date.now() against the expiresAt of the item
Cmp(item) ==
    IF item.expiresAt = Undef THEN "nan"
    ELSE IF snow < item.expiresAt THEN "before"
    ELSE IF snow = item.expiresAt THEN "at" ELSE "after"

\* the background refreshes of key k that have not settled
Refreshing(k) == {i \in 1..MaxBg : bg[i].key = k /\ bg[i].phase \in {"loading", "setting"}}

InitSWR ==
    /\ snow = StartMs
    /\ sstore \in [SKeys -> {NoItem, KeptAt(Item(OldData, StartMs - TickMs, DefaultTTL),
                                      DefaultTTL, StartMs - TickMs)}]
    /\ revalidating = {}
    /\ bg = [i \in 1..MaxBg |-> NoBg]
    /\ scall = [p \in SSlots |-> NoSCall]
    /\ sops = 0
    /\ writer = [k \in SKeys |-> IF sstore[k] = NoItem THEN NoWriter
                                 ELSE [NoWriter EXCEPT !.by = "set"]]
    /\ failed = [k \in SKeys |-> FALSE]
    /\ unhandled = FALSE

\* the record taken by the next background refresh: the lowest unused one, 0 if none
FreeBg ==
    IF \E i \in 1..MaxBg : bg[i].phase = "free"
    THEN CHOOSE i \in 1..MaxBg : bg[i].phase = "free" /\ \A j \in 1..(i - 1) : bg[j].phase # "free"
    ELSE 0

SFree(p) == scall[p].pc \in {"idle", "done"}

SSlot(p) == SFree(p) /\ \A q \in SSlots : q < p => ~SFree(q)

\* a new call takes slot p: the call that held the slot is forgotten
Take(p, rec) ==
    [q \in SSlots |-> IF q = p THEN rec ELSE [scall[q] EXCEPT !.with = @ \ {p}]]

\* history: the getOrLoad calls on key k in progress
Overlapping(k) ==
    {q \in SSlots : scall[q].op = "getOrLoad" /\ ~SFree(q) /\ scall[q].key = k}

STick ==
    /\ snow < MaxNow
    /\ snow' = snow + TickMs
    /\ UNCHANGED <<sstore, revalidating, bg, scall, sops, writer, failed, unhandled>>

\* SWRCache.set (lines 209-223)
SSet(p, k) ==
    /\ SSlot(p)
    /\ sops < MaxSwrOps
    /\ sops' = sops + 1
    /\ sstore' = [sstore EXCEPT ![k] = Kept(Item(OldData, snow, DefaultTTL), DefaultTTL)]
    /\ writer' = [writer EXCEPT ![k] = [NoWriter EXCEPT !.by = "set"]]
    /\ scall' = Take(p, [NoSCall EXCEPT !.op = "set", !.key = k, !.pc = "done"])
    /\ UNCHANGED <<snow, revalidating, bg, failed, unhandled>>

\* SWRCache.setMany (lines 244-261): the envelopes are built into "items",
\* but "data" is what line 257 hands to this.cache.setMany
SSetMany(p, K) ==
    /\ SSlot(p)
    /\ sops < MaxSwrOps
    /\ sops' = sops + 1
    /\ sstore' = [k \in SKeys |-> IF k \in K THEN Kept(Raw(OldData), DefaultTTL) ELSE sstore[k]]
    /\ writer' = [k \in SKeys |-> IF k \in K THEN [NoWriter EXCEPT !.by = "setMany"] ELSE writer[k]]
    /\ scall' = Take(p, [NoSCall EXCEPT !.op = "setMany", !.keys = K, !.pc = "done"])
    /\ UNCHANGED <<snow, revalidating, bg, failed, unhandled>>

\* SWRCache.delete (lines 225-229)
SDelete(p, k) ==
    /\ SSlot(p)
    /\ sops < MaxSwrOps
    /\ sops' = sops + 1
    /\ sstore' = [sstore EXCEPT ![k] = NoItem]
    /\ writer' = [writer EXCEPT ![k] = NoWriter]
    /\ scall' = Take(p, [NoSCall EXCEPT !.op = "delete", !.key = k, !.pc = "done"])
    /\ UNCHANGED <<snow, revalidating, bg, failed, unhandled>>

SAllFree == \A p \in SSlots : SFree(p)

\* history: the value of the set of key k that held slot p and has completed,
\* if no call is in progress and the wrapped cache still keeps the entry
SPrevSet(p, k) ==
    IF /\ SAllFree
       /\ scall[p].op = "set" /\ scall[p].pc = "done" /\ scall[p].key = k
       /\ Stored(k) # NoItem
    THEN OldData ELSE 0

\* Mutant of SGet: a stale item read by get registers a revalidation.
SGet_Revalidates(p, k) ==
    LET item == Got(k) IN
    /\ SSlot(p)
    /\ sops < MaxSwrOps
    /\ sops' = sops + 1
    /\ revalidating' = IF IsStale(item) THEN revalidating \cup {k} ELSE revalidating
    /\ scall' = Take(p, [NoSCall EXCEPT !.op = "get", !.key = k, !.pc = "done", !.item = item,
                            !.hit = (item # NoItem), !.cmp = Cmp(item), !.stale = IsStale(item),
                            !.src = writer[k].by, !.prevSet = SPrevSet(p, k),
                            !.result = IF item = NoItem THEN 0 ELSE item.data])
    /\ UNCHANGED <<snow, sstore, bg, writer, failed, unhandled>>

\* SWRCache.get (lines 171-177); getMany([key]) unwraps the same way (231-242)
SGet(p, k) ==
    LET item == Got(k) IN
    /\ SSlot(p)
    /\ sops < MaxSwrOps
    /\ sops' = sops + 1
    /\ scall' = Take(p, [NoSCall EXCEPT !.op = "get", !.key = k, !.pc = "done", !.item = item,
                            !.hit = (item # NoItem), !.cmp = Cmp(item), !.stale = IsStale(item),
                            !.src = writer[k].by, !.prevSet = SPrevSet(p, k),
                            !.result = IF item = NoItem THEN 0 ELSE item.data])
    /\ UNCHANGED <<snow, sstore, revalidating, bg, writer, failed, unhandled>>

\* SWRCache.getOrLoad is called (lines 179-193) and BaseCache.getOrLoad reads
\* the key (base/index.ts 26-36): a hit is returned, a miss calls loadItem
SGetOrLoad(p, k, opt) ==
    LET item == Got(k) IN
    /\ SSlot(p)
    /\ sops < MaxSwrOps
    /\ sops' = sops + 1
    /\ scall' = Take(p, [NoSCall EXCEPT !.op = "getOrLoad", !.key = k, !.item = item,
                            !.ttl = Ttl(opt), !.hit = (item # NoItem),
                            !.src = writer[k].by, !.with = Overlapping(k),
                            !.pc = IF item = NoItem THEN "loading" ELSE "check"])
    /\ UNCHANGED <<snow, sstore, revalidating, bg, writer, failed, unhandled>>

\* loadItem settles (lines 188-191); BaseCache.getOrLoad sets it (base/index.ts 38)
SLoaded(p) ==
    /\ scall[p].pc = "loading"
    /\ scall' = [scall EXCEPT ![p].pc = "storing", ![p].loads = 1,
                              ![p].item = Item(NewData, snow, scall[p].ttl)]
    /\ UNCHANGED <<snow, sstore, revalidating, bg, sops, writer, failed, unhandled>>

\* the set of BaseCache.getOrLoad settles and the item is returned (base/index.ts 38-40)
SStored(p) ==
    /\ scall[p].pc = "storing"
    /\ sstore' = [sstore EXCEPT ![scall[p].key] = Kept(scall[p].item, scall[p].ttl)]
    /\ writer' = [writer EXCEPT ![scall[p].key] = [NoWriter EXCEPT !.by = "load"]]
    /\ scall' = [scall EXCEPT ![p].pc = "check", ![p].wrote = TRUE]
    /\ UNCHANGED <<snow, revalidating, bg, sops, failed, unhandled>>

\* the refresh started by the call in slot p
NewBg(p) == [NoBg EXCEPT !.key = scall[p].key, !.phase = "loading", !.ttl = scall[p].ttl]

\* the call in slot p returns item.data (line 206)
Returned(p, starts) ==
    [scall EXCEPT ![p].pc = "done", ![p].result = scall[p].item.data,
                  ![p].cmp = Cmp(scall[p].item), ![p].stale = IsStale(scall[p].item),
                  ![p].sawReval = (scall[p].key \in revalidating),
                  ![p].afterFail = failed[scall[p].key], ![p].started = starts]

\* Mutant of SCheck: the "!this.revalidating.has(key)" test of line 196 is lost.
SCheck_NoGuard(p) ==
    LET k == scall[p].key
        starts == IsStale(scall[p].item)
        i == FreeBg IN
    /\ scall[p].pc = "check"
    /\ IF starts
       THEN /\ i # 0
            /\ bg' = [bg EXCEPT ![i] = NewBg(p)]
            /\ revalidating' = revalidating \cup {k}
            /\ failed' = [failed EXCEPT ![k] = FALSE]
       ELSE UNCHANGED <<bg, revalidating, failed>>
    /\ scall' = Returned(p, starts)
    /\ UNCHANGED <<snow, sstore, sops, writer, unhandled>>

\* Mutant of SCheck: the "item.expiresAt < Date.now()" test of line 196 is lost.
SCheck_NoFreshTest(p) ==
    LET k == scall[p].key
        starts == k \notin revalidating
        i == FreeBg IN
    /\ scall[p].pc = "check"
    /\ IF starts
       THEN /\ i # 0
            /\ bg' = [bg EXCEPT ![i] = NewBg(p)]
            /\ revalidating' = revalidating \cup {k}
            /\ failed' = [failed EXCEPT ![k] = FALSE]
       ELSE UNCHANGED <<bg, revalidating, failed>>
    /\ scall' = Returned(p, starts)
    /\ UNCHANGED <<snow, sstore, sops, writer, unhandled>>

\* lines 195-206: a stale item starts a background refresh unless one is
\* registered for the key; the item's data is returned at once
SCheck(p) ==
    LET k == scall[p].key
        starts == IsStale(scall[p].item) /\ k \notin revalidating
        i == FreeBg IN
    /\ scall[p].pc = "check"
    /\ IF starts
       THEN /\ i # 0
            /\ bg' = [bg EXCEPT ![i] = NewBg(p)]
            /\ revalidating' = revalidating \cup {k}
            /\ failed' = [failed EXCEPT ![k] = FALSE]
       ELSE UNCHANGED <<bg, revalidating, failed>>
    /\ scall' = Returned(p, starts)
    /\ UNCHANGED <<snow, sstore, sops, writer, unhandled>>

\* the background loadItem settles and this.cache.set is called (lines 199-200)
BgLoaded(i) ==
    /\ bg[i].phase = "loading"
    /\ bg' = [bg EXCEPT ![i].phase = "setting", ![i].loadedAt = snow,
                        ![i].item = Item(NewData, snow, bg[i].ttl)]
    /\ UNCHANGED <<snow, sstore, revalidating, scall, sops, writer, failed, unhandled>>

\* Mutant of BgFailed: the finally of line 201 does not run on a rejection.
BgFailed_KeepsRecord(i) ==
    /\ bg[i].phase = "loading"
    /\ bg' = [bg EXCEPT ![i] = NoBg]
    /\ failed' = [failed EXCEPT ![bg[i].key] = TRUE]
    /\ unhandled' = TRUE
    /\ UNCHANGED <<snow, sstore, revalidating, scall, sops, writer>>

\* the background loader rejects: the then of line 200 is skipped, the finally
\* of line 201 runs and its promise is rejected; nothing handles the rejection
BgFailed(i) ==
    /\ bg[i].phase = "loading"
    /\ bg' = [bg EXCEPT ![i] = NoBg]
    /\ revalidating' = revalidating \ {bg[i].key}
    /\ failed' = [failed EXCEPT ![bg[i].key] = TRUE]
    /\ unhandled' = TRUE
    /\ UNCHANGED <<snow, sstore, scall, sops, writer>>

\* Mutant of BgStored: the write-back keeps the item for ttl, not ttl + staleTTL.
BgStored_NoStaleTTL(i) ==
    /\ bg[i].phase = "setting"
    /\ sstore' = [sstore EXCEPT ![bg[i].key] =
                     [bg[i].item EXCEPT !.gone = snow + bg[i].ttl * MsPerSecond]]
    /\ writer' = [writer EXCEPT ![bg[i].key] =
                     [by |-> "refresh", made |-> bg[i].loadedAt, at |-> snow, ttl |-> bg[i].ttl]]
    /\ bg' = [bg EXCEPT ![i] = NoBg]
    /\ revalidating' = revalidating \ {bg[i].key}
    /\ UNCHANGED <<snow, scall, sops, failed, unhandled>>

\* the background set settles, then the finally of line 201 runs
BgStored(i) ==
    /\ bg[i].phase = "setting"
    /\ sstore' = [sstore EXCEPT ![bg[i].key] = Kept(bg[i].item, bg[i].ttl)]
    /\ writer' = [writer EXCEPT ![bg[i].key] =
                     [by |-> "refresh", made |-> bg[i].loadedAt, at |-> snow, ttl |-> bg[i].ttl]]
    /\ bg' = [bg EXCEPT ![i] = NoBg]
    /\ revalidating' = revalidating \ {bg[i].key}
    /\ UNCHANGED <<snow, scall, sops, failed, unhandled>>

\* the background set rejects: the finally of line 201 runs and its promise
\* is rejected; nothing handles the rejection
BgStoreFailed(i) ==
    /\ bg[i].phase = "setting"
    /\ bg' = [bg EXCEPT ![i] = NoBg]
    /\ revalidating' = revalidating \ {bg[i].key}
    /\ failed' = [failed EXCEPT ![bg[i].key] = TRUE]
    /\ unhandled' = TRUE
    /\ UNCHANGED <<snow, sstore, scall, sops, writer>>


\* ========================================================================
\*  PART 4 - TieredCache over tiers that are BaseCache stores
\* ========================================================================
VARIABLES
    tiers,     \* this.tiers: tier -> key -> what the tier's cache holds
    gcall,     \* the TieredCache calls in progress, one per slot
    gops,      \* number of calls issued so far
    lastGet    \* history: the get that completed last, if it was a hit

tierVars == <<tiers, gcall, gops, lastGet>>

GKeys == {"k1", "k2"}
GVals == {"v1", "v2"}
Loaded == "loaded"
Tiers == 0..(NTiers - 1)
Last == NTiers - 1
GSlots == 1..NSlots
NoTier == -1

\* the key lists given to getMany, setMany and deleteMany
ManyKeys == SUBSET GKeys \ {{}}

\* the options a value was written with: those of a tier (tier.options) or
\* the caller's; "init" marks what the tier held at the start
NoOpt == [from |-> "none", tier |-> NoTier]
InitOpt == [from |-> "init", tier |-> NoTier]
CallOpt == [from |-> "call", tier |-> NoTier]
TierOpt(i) == [from |-> "tier", tier |-> i]

\* "options || tier.options" (lines 67, 83); given is whether the caller passed options
Options(given, i) == IF given THEN CallOpt ELSE TierOpt(i)

NoEnt == [v |-> Null, opt |-> NoOpt]
\* a key that the record returned by getMany has no entry for
Omitted == "omitted"
NoData == [k \in GKeys |-> Omitted]
Empty == [i \in Tiers |-> [k \in GKeys |-> NoEnt]]
NoLast == [key |-> "none", val |-> Null, hitAt |-> NoTier]
NoGCall == [op |-> "none", pc |-> "idle", key |-> "none", i |-> 0, val |-> Null,
            given |-> FALSE, pending |-> {}, read |-> {}, hitAt |-> NoTier,
            follows |-> FALSE, expect |-> Null, prevHit |-> NoTier,
            prevSet |-> Null, result |-> Null, loads |-> 0,
            keys |-> {}, failed |-> {}, rejected |-> FALSE, before |-> Empty,
            remaining |-> {}, data |-> NoData, asked |-> [i \in Tiers |-> {}],
            mute |-> {}]

InitTiered ==
    /\ tiers \in [Tiers -> [GKeys -> {NoEnt} \cup {[v |-> v, opt |-> InitOpt] : v \in GVals}]]
    /\ \A i \in Tiers : tiers[i]["k2"] = NoEnt
    /\ gcall = [p \in GSlots |-> NoGCall]
    /\ gops = 0
    /\ lastGet = NoLast

GFree(p) == gcall[p].pc \in {"idle", "done"}

GSlot(p) == GFree(p) /\ \A q \in GSlots : q < p => ~GFree(q)

GAllFree == \A p \in GSlots : GFree(p)

\* history: the value of the set(k, v) that held slot p and has completed, if
\* no call is in progress
PrevSet(p, k) ==
    IF /\ GAllFree /\ gcall[p].op = "set" /\ gcall[p].pc = "done" /\ gcall[p].key = k
       /\ ~gcall[p].rejected
    THEN gcall[p].val ELSE Null

\* TieredCache.get is called (lines 42-57): next(0)
TierGet(p, k) ==
    /\ GSlot(p)
    /\ gops < MaxTierOps
    /\ gops' = gops + 1
    /\ gcall' = [gcall EXCEPT ![p] =
          [NoGCall EXCEPT !.op = "get", !.key = k, !.pc = "read",
                          !.follows = (lastGet.key = k), !.expect = lastGet.val,
                          !.prevHit = lastGet.hitAt, !.prevSet = PrevSet(p, k)]]
    /\ lastGet' = NoLast
    /\ UNCHANGED tiers

\* TieredCache.getOrLoad is called (lines 59-74): next(0)
TierGetOrLoad(p, k, given) ==
    /\ GSlot(p)
    /\ gops < MaxTierOps
    /\ gops' = gops + 1
    /\ gcall' = [gcall EXCEPT ![p] =
          [NoGCall EXCEPT !.op = "getOrLoad", !.key = k, !.pc = "read", !.given = given]]
    /\ lastGet' = NoLast
    /\ UNCHANGED tiers

\* the call in slot p, at record rec, settles with value v
Settled(p, rec, v) ==
    /\ gcall' = [gcall EXCEPT ![p] = [rec EXCEPT !.pc = "done", !.result = v, !.val = v]]
    /\ lastGet' = IF rec.op = "get" /\ v # Null
                  THEN [key |-> rec.key, val |-> v, hitAt |-> rec.hitAt]
                  ELSE NoLast

\* next(i): the get of tier i, directly for the last tier of a get (line 50),
\* inside BaseCache.getOrLoad otherwise (lines 53, 67, 70; base/index.ts 26-36).
\* A hit is returned to the tier above, a miss goes to next(i + 1), or to the
\* caller's loader from the last tier of a getOrLoad.
TierRead(p) ==
    LET c == gcall[p]
        v == tiers[c.i][c.key].v
        rec == [c EXCEPT !.read = c.read \cup {c.i}, !.val = v,
                         !.hitAt = IF v # Null THEN c.i ELSE NoTier] IN
    /\ c.pc = "read"
    /\ IF v # Null \/ (c.i = Last /\ c.op = "get")
       THEN IF c.i = 0
            THEN Settled(p, rec, v)
            ELSE /\ gcall' = [gcall EXCEPT ![p] = [rec EXCEPT !.pc = "fill", !.i = c.i - 1]]
                 /\ UNCHANGED lastGet
       ELSE /\ gcall' = [gcall EXCEPT ![p] =
                            [rec EXCEPT !.pc = IF c.i = Last THEN "load" ELSE "read",
                                        !.i = IF c.i = Last THEN c.i ELSE c.i + 1]]
            /\ UNCHANGED lastGet
    /\ UNCHANGED <<tiers, gops>>

\* the caller's loader settles inside the last tier's getOrLoad (line 67;
\* base/index.ts 36): its set follows
TierLoaded(p) ==
    /\ gcall[p].pc = "load"
    /\ gcall' = [gcall EXCEPT ![p].pc = "fill", ![p].val = Loaded,
                              ![p].loads = gcall[p].loads + 1]
    /\ UNCHANGED <<tiers, gops, lastGet>>

\* Mutant of Filled: the last tier ignores the caller's options.
Filled_OwnOptions(c, i) ==
    [v |-> c.val, opt |-> TierOpt(i)]

\* what BaseCache.getOrLoad of tier i sets after its load (base/index.ts 38):
\* tier.options, or "options || tier.options" in the last tier (lines 53, 67, 70)
Filled(c, i) ==
    [v |-> c.val, opt |-> IF i = Last THEN Options(c.given, i) ELSE TierOpt(i)]

\* Mutant of TierFill: the first tier is not written.
TierFill_SkipsFirst(p) ==
    LET c == gcall[p] IN
    /\ c.pc = "fill"
    /\ tiers' = IF c.i = 0 THEN tiers ELSE [tiers EXCEPT ![c.i][c.key] = Filled(c, c.i)]
    /\ IF c.i = 0
       THEN Settled(p, c, c.val)
       ELSE /\ gcall' = [gcall EXCEPT ![p].i = c.i - 1]
            /\ UNCHANGED lastGet
    /\ UNCHANGED gops

\* BaseCache.getOrLoad of tier i: "await this.set(key, data, options); return
\* data" (base/index.ts 38-40); the value goes to the tier above, or to the caller
TierFill(p) ==
    LET c == gcall[p] IN
    /\ c.pc = "fill"
    /\ tiers' = [tiers EXCEPT ![c.i][c.key] = Filled(c, c.i)]
    /\ IF c.i = 0
       THEN Settled(p, c, c.val)
       ELSE /\ gcall' = [gcall EXCEPT ![p].i = c.i - 1]
            /\ UNCHANGED lastGet
    /\ UNCHANGED gops

\* TieredCache.getMany is called with the keys K (lines 96-100)
TierGetMany(p, K) ==
    /\ GSlot(p)
    /\ gops < MaxTierOps
    /\ gops' = gops + 1
    /\ gcall' = [gcall EXCEPT ![p] =
          [NoGCall EXCEPT !.op = "getMany", !.keys = K, !.pc = "many", !.i = 0,
                          !.remaining = K, !.before = tiers]]
    /\ lastGet' = NoLast
    /\ UNCHANGED tiers

\* "await tier.cache.getMany(remainingKeys)" (line 106; base/index.ts 43-51:
\* an entry for every key asked, null for a key the tier does not hold)
Items(i, K) == [k \in K |-> tiers[i][k].v]

\* one round of the loop of getMany over the items of tier c.i (lines 108-120)
ManyRound(c, items, rem) ==
    [c EXCEPT !.asked[c.i] = DOMAIN items,
              !.remaining = rem,
              !.data = [k \in GKeys |-> IF k \in DOMAIN items /\ items[k] # Null
                                        THEN items[k] ELSE c.data[k]],
              !.i = IF rem = {} \/ c.i = Last THEN c.i ELSE c.i + 1,
              !.pc = IF rem = {} \/ c.i = Last THEN "done" ELSE "many"]

\* Mutant of TierGetManyRead: every tier is asked for all the keys of the call.
TierGetManyRead_AsksAll(p) ==
    LET c == gcall[p]
        items == Items(c.i, c.keys) IN
    /\ c.pc = "many"
    /\ gcall' = [gcall EXCEPT ![p] = ManyRound(c, items, {k \in DOMAIN items : items[k] = Null})]
    /\ UNCHANGED <<tiers, gops, lastGet>>

\* tier c.i answers the getMany of the remaining keys (lines 102-121); the
\* call returns data after the loop (line 123)
TierGetManyRead(p) ==
    LET c == gcall[p]
        items == Items(c.i, c.remaining) IN
    /\ c.pc = "many"
    /\ gcall' = [gcall EXCEPT ![p] = ManyRound(c, items, {k \in DOMAIN items : items[k] = Null})]
    /\ UNCHANGED <<tiers, gops, lastGet>>

\* the record {} that NoOpCache.getMany (noop/index.ts 19-21) and a fail-open
\* FailSafeCache.getMany (fail-safe/index.ts 95-97) resolve to
NoItems == [k \in {} |-> Null]

\* tier c.i is such a cache: its getMany answers {} and the loop of lines
\* 108-120 runs over no entry
TierGetManyNoEntries(p) ==
    LET c == gcall[p] IN
    /\ c.pc = "many"
    /\ gcall' = [gcall EXCEPT ![p] =
                    [ManyRound(c, NoItems, {}) EXCEPT !.mute = c.mute \cup {c.i}]]
    /\ UNCHANGED <<tiers, gops, lastGet>>

\* TieredCache.set is called (lines 76-86): one set per tier, in parallel
TierSet(p, k, v, given) ==
    /\ GSlot(p)
    /\ gops < MaxTierOps
    /\ gops' = gops + 1
    /\ gcall' = [gcall EXCEPT ![p] =
          [NoGCall EXCEPT !.op = "set", !.key = k, !.keys = {k}, !.pc = "set", !.val = v,
                          !.given = given, !.pending = Tiers, !.before = tiers]]
    /\ lastGet' = NoLast
    /\ UNCHANGED tiers

\* TieredCache.setMany is called (lines 126-136) with data giving v to the
\* keys of K: one setMany per tier, in parallel
TierSetMany(p, K, v, given) ==
    /\ GSlot(p)
    /\ gops < MaxTierOps
    /\ gops' = gops + 1
    /\ gcall' = [gcall EXCEPT ![p] =
          [NoGCall EXCEPT !.op = "setMany", !.keys = K, !.pc = "set", !.val = v,
                          !.given = given, !.pending = Tiers, !.before = tiers]]
    /\ lastGet' = NoLast
    /\ UNCHANGED tiers

\* the tiers after call c has written entry e, or removed (NoEnt), its keys in tier i
Written(c, i, e) ==
    [tiers EXCEPT ![i] = [k \in GKeys |-> IF k \in c.keys THEN e ELSE tiers[i][k]]]

\* Promise.all (lines 79, 91, 129, 141): the operation of tier i of call c
\* has settled; the call is over once every tier has settled
TierSettled(c, i, ok) ==
    [c EXCEPT !.pending = c.pending \ {i},
              !.failed = IF ok THEN c.failed ELSE c.failed \cup {i},
              !.rejected = c.rejected \/ ~ok,
              !.pc = IF c.pending = {i} THEN "done" ELSE c.pc]

\* Mutant of TierSetWrite: every tier is written with the options of the last tier.
TierSetWrite_LastOptions(p, i) ==
    LET c == gcall[p] IN
    /\ c.pc = "set"
    /\ i \in c.pending
    /\ tiers' = Written(c, i, Filled(c, Last))
    /\ gcall' = [gcall EXCEPT ![p] = TierSettled(c, i, TRUE)]
    /\ UNCHANGED <<gops, lastGet>>

\* the set / setMany of tier i settles (lines 83, 133)
TierSetWrite(p, i) ==
    LET c == gcall[p] IN
    /\ c.pc = "set"
    /\ i \in c.pending
    /\ tiers' = Written(c, i, Filled(c, i))
    /\ gcall' = [gcall EXCEPT ![p] = TierSettled(c, i, TRUE)]
    /\ UNCHANGED <<gops, lastGet>>

\* Mutant of TierSetFail: the call removes the key from the tier that failed.
TierSetFail_Clears(p, i) ==
    LET c == gcall[p] IN
    /\ c.pc = "set"
    /\ i \in c.pending
    /\ tiers' = Written(c, i, NoEnt)
    /\ gcall' = [gcall EXCEPT ![p] = TierSettled(c, i, FALSE)]
    /\ UNCHANGED <<gops, lastGet>>

\* the set / setMany of tier i rejects (lines 83, 133): Promise.all rejects
\* with that error; the operations of the other tiers go on
TierSetFail(p, i) ==
    LET c == gcall[p] IN
    /\ c.pc = "set"
    /\ i \in c.pending
    /\ gcall' = [gcall EXCEPT ![p] = TierSettled(c, i, FALSE)]
    /\ UNCHANGED <<tiers, gops, lastGet>>

\* TieredCache.delete is called (lines 88-94): one delete per tier, in parallel
TierDelete(p, k) ==
    /\ GSlot(p)
    /\ gops < MaxTierOps
    /\ gops' = gops + 1
    /\ gcall' = [gcall EXCEPT ![p] =
          [NoGCall EXCEPT !.op = "delete", !.key = k, !.keys = {k}, !.pc = "delete",
                          !.pending = Tiers, !.before = tiers]]
    /\ lastGet' = NoLast
    /\ UNCHANGED tiers

\* TieredCache.deleteMany is called (lines 138-144): one deleteMany per tier
TierDeleteMany(p, K) ==
    /\ GSlot(p)
    /\ gops < MaxTierOps
    /\ gops' = gops + 1
    /\ gcall' = [gcall EXCEPT ![p] =
          [NoGCall EXCEPT !.op = "deleteMany", !.keys = K, !.pc = "delete",
                          !.pending = Tiers, !.before = tiers]]
    /\ lastGet' = NoLast
    /\ UNCHANGED tiers

\* the delete / deleteMany of tier i settles (lines 92, 142)
TierDeleteWrite(p, i) ==
    LET c == gcall[p] IN
    /\ c.pc = "delete"
    /\ i \in c.pending
    /\ tiers' = Written(c, i, NoEnt)
    /\ gcall' = [gcall EXCEPT ![p] = TierSettled(c, i, TRUE)]
    /\ UNCHANGED <<gops, lastGet>>

\* the delete / deleteMany of tier i rejects (lines 92, 142)
TierDeleteFail(p, i) ==
    LET c == gcall[p] IN
    /\ c.pc = "delete"
    /\ i \in c.pending
    /\ gcall' = [gcall EXCEPT ![p] = TierSettled(c, i, FALSE)]
    /\ UNCHANGED <<tiers, gops, lastGet>>


\* ========================================================================
\*  PART 5 - FailSafeCache.getOrLoad over a BaseCache store
\* ========================================================================
VARIABLES
    fstore,    \* the wrapped cache: key -> what it holds
    fcall,     \* the getOrLoad call in progress, or the one that settled last
    fops       \* number of calls issued so far

fsVars == <<fstore, fcall, fops>>

FKeys == {"k1", "k2"}
FVals == {"v"}
\* what the caller's loader can resolve to
FLoads == {"x", Null}
Policies == {"fail-open", "fail-closed"}
LoadError == "load error"
StoreError == "store error"

NoFEnt == [v |-> Null, given |-> FALSE]
\* loaded and threw record what the caller's loader did: the value it
\* resolved to last, and whether it rejected
NoFCall == [pc |-> "idle", key |-> "none", policy |-> "none", given |-> FALSE,
            loadResult |-> Null, loadErrored |-> FALSE, loadSuccessful |-> FALSE,
            gets |-> 0, loads |-> 0, sets |-> 0, read |-> NoFEnt, wrote |-> NoFEnt,
            storeFailed |-> "none", loaded |-> "none", threw |-> FALSE,
            settled |-> "none", result |-> Null]

InitFailSafe ==
    /\ fstore \in [FKeys -> {NoFEnt} \cup {[v |-> v, given |-> FALSE] : v \in FVals}]
    /\ fcall = NoFCall
    /\ fops = 0

\* the promise returned by FailSafeCache.getOrLoad settles
Resolve(c, v) == [c EXCEPT !.pc = "done", !.settled = "resolved", !.result = v]

Reject(c, e) == [c EXCEPT !.pc = "done", !.settled = "rejected", !.result = e]

\* FailSafeCache.getOrLoad is called (fail-safe/index.ts 115-132): it calls
\* this.cache.getOrLoad, whose first step is "await this.get(key)"
\* (base/index.ts 26); given is whether the caller passed options
FsGetOrLoad(k, policy, given) ==
    /\ fcall.pc \in {"idle", "done"}
    /\ fops < MaxFsOps
    /\ fops' = fops + 1
    /\ fcall' = [NoFCall EXCEPT !.pc = "get", !.key = k, !.policy = policy,
                                !.given = given, !.gets = 1]
    /\ UNCHANGED fstore

\* Mutant of BaseRead: the loader is called whether the key is held or not.
BaseRead_AlwaysLoads ==
    LET data == fstore[fcall.key] IN
    /\ fcall.pc = "get"
    /\ fcall' = [fcall EXCEPT !.pc = "load", !.read = data, !.loads = @ + 1]
    /\ UNCHANGED <<fstore, fops>>

\* BaseCache.getOrLoad after "await this.get(key)" (base/index.ts 26-36): a
\* value is returned, null calls load()
BaseRead ==
    LET data == fstore[fcall.key] IN
    /\ fcall.pc = "get"
    /\ fcall' = IF data.v # Null
                THEN Resolve([fcall EXCEPT !.read = data], data.v)
                ELSE [fcall EXCEPT !.pc = "load", !.read = data, !.loads = @ + 1]
    /\ UNCHANGED <<fstore, fops>>

\* handleError('getOrLoad', ...) (fail-safe/index.ts 147-157): TRUE when the
\* error is swallowed
FailsOpen(policy) == policy = "fail-open"

\* this.get rejects: the catch of FailSafeCache.getOrLoad (lines 133-144)
\* finds loadErrored and loadSuccessful false; fail-open calls load() itself
BaseReadFailed ==
    /\ fcall.pc = "get"
    /\ fcall' = IF FailsOpen(fcall.policy)
                THEN [fcall EXCEPT !.pc = "reload", !.storeFailed = "get", !.loads = @ + 1]
                ELSE Reject([fcall EXCEPT !.storeFailed = "get"], StoreError)
    /\ UNCHANGED <<fstore, fops>>

\* loadWithErrorHandling: load() resolves to v (fail-safe/index.ts 121-124);
\* BaseCache.getOrLoad calls this.set(key, data, options) (base/index.ts 38)
BaseLoaded(v) ==
    /\ fcall.pc = "load"
    /\ fcall' = [fcall EXCEPT !.pc = "set", !.loadResult = v, !.loadSuccessful = TRUE,
                              !.loaded = v, !.sets = @ + 1, !.wrote = [v |-> v, given |-> fcall.given]]
    /\ UNCHANGED <<fstore, fops>>

\* loadWithErrorHandling: load() rejects (lines 125-128); BaseCache.getOrLoad
\* rejects with it and the catch passes it through (lines 135-138)
LoadFailed ==
    /\ fcall.pc = "load"
    /\ fcall' = Reject([fcall EXCEPT !.loadErrored = TRUE, !.threw = TRUE], LoadError)
    /\ UNCHANGED <<fstore, fops>>

\* "await this.set(...)" settles and BaseCache.getOrLoad returns data
\* (base/index.ts 38-40)
BaseStored ==
    /\ fcall.pc = "set"
    /\ fstore' = [fstore EXCEPT ![fcall.key] = fcall.wrote]
    /\ fcall' = Resolve(fcall, fcall.loadResult)
    /\ UNCHANGED fops

\* Mutant of BaseStoreFailed: the "loadSuccessful ? loadResult" test of line
\* 143 is lost and the loader is called again.
BaseStoreFailed_Reloads ==
    /\ fcall.pc = "set"
    /\ fcall' = IF FailsOpen(fcall.policy)
                THEN [fcall EXCEPT !.pc = "reload", !.storeFailed = "set", !.loads = @ + 1]
                ELSE Reject([fcall EXCEPT !.storeFailed = "set"], StoreError)
    /\ UNCHANGED <<fstore, fops>>

\* this.set rejects: the catch finds loadSuccessful true; fail-open returns
\* loadResult (line 143)
BaseStoreFailed ==
    /\ fcall.pc = "set"
    /\ fcall' = IF FailsOpen(fcall.policy)
                THEN Resolve([fcall EXCEPT !.storeFailed = "set"], fcall.loadResult)
                ELSE Reject([fcall EXCEPT !.storeFailed = "set"], StoreError)
    /\ UNCHANGED <<fstore, fops>>

\* the "await load()" of line 143 settles: it is the caller's load, not
\* loadWithErrorHandling, so the flags stay as they are
Reloaded(v) ==
    /\ fcall.pc = "reload"
    /\ fcall' = Resolve([fcall EXCEPT !.loaded = v], v)
    /\ UNCHANGED <<fstore, fops>>

ReloadFailed ==
    /\ fcall.pc = "reload"
    /\ fcall' = Reject([fcall EXCEPT !.threw = TRUE], LoadError)
    /\ UNCHANGED <<fstore, fops>>

\* ========================================================================
\*  PART 6 - LocalMapCache with a maximum size
\* ========================================================================
VARIABLES
    mcache,    \* the Map: its entries in insertion order
    mlast      \* the last operation and the keys it evicted, in order

mapVars == <<mcache, mlast>>

MKeys == {"a", "b", "c", "d"}
MVals == {"p", "q"}

\* the keys of a sequence of entries
KeysOf(m) == {m[i].k : i \in 1..Len(m)}

\* Map.prototype.set: an existing key keeps its place, a new key goes last
MapPut(m, k, v) ==
    IF k \in KeysOf(m)
    THEN [i \in 1..Len(m) |-> IF m[i].k = k THEN [k |-> k, v |-> v] ELSE m[i]]
    ELSE Append(m, [k |-> k, v |-> v])

\* Map.prototype.delete
MapRemove(m, k) == SelectSeq(m, LAMBDA e : e.k # k)

\* evict(length) (map/index.ts 111-127): the keys that go, in the order of
\* this.cache.keys(); the loop breaks when the iterator is done
Evicted(m, length) ==
    [i \in 1..(IF length > Len(m) THEN Len(m) ELSE length) |-> m[i].k]

\* evict(length): the Map after it
evict(m, length) == SubSeq(m, Len(Evicted(m, length)) + 1, Len(m))

\* the sequences of distinct keys of length n
RECURSIVE KeySeqs(_)
KeySeqs(n) ==
    IF n = 0 THEN {<<>>}
    ELSE UNION {{Append(s, k) : k \in MKeys \ {s[i] : i \in 1..Len(s)}} : s \in KeySeqs(n - 1)}

\* Object.entries(data) of a setMany call: one to MaxData distinct keys
DataKeys == UNION {KeySeqs(n) : n \in 1..MaxData}

\* the loop of setMany (map/index.ts 88-92) over the keys ks
RECURSIVE PutAll(_, _, _)
PutAll(m, ks, v) ==
    IF ks = <<>> THEN m
    ELSE PutAll(MapPut(m, Head(ks), v), Tail(ks), v)

InitMap ==
    /\ mcache = <<>>
    /\ mlast = [op |-> "none", evicted |-> <<>>]

\* set(key, value) -> _set (map/index.ts 55-66)
MapSet(k, v) ==
    LET length == IF Len(mcache) >= MapMax /\ k \notin KeysOf(mcache) THEN 1 ELSE 0 IN
    /\ mcache' = MapPut(evict(mcache, length), k, v)
    /\ mlast' = [op |-> "set", evicted |-> Evicted(mcache, length)]

\* delete(key) -> _delete (map/index.ts 69-75)
MapDelete(k) ==
    /\ mcache' = MapRemove(mcache, k)
    /\ mlast' = [op |-> "delete", evicted |-> <<>>]

\* setMany(data) (map/index.ts 77-93)
MapSetMany(ks, v) ==
    LET newEntries == Cardinality({i \in 1..Len(ks) : ks[i] \notin KeysOf(mcache)})
        length == IF Len(mcache) + newEntries > MapMax
                  THEN Len(mcache) + newEntries - MapMax ELSE 0
    IN
    /\ mcache' = PutAll(evict(mcache, length), ks, v)
    /\ mlast' = [op |-> "setMany", evicted |-> Evicted(mcache, length)]

\* ========================================================================
\*  Specifications
\* ========================================================================
vars == <<coalVars, tagVars, swrVars, tierVars, fsVars, mapVars>>

\* the layers are separate objects: a specification runs one of them and
\* leaves the others as constructed
IdleCoalescing == InitCoalescing /\ cstore = [k \in CKeys |-> Null]

IdleTagging == InitTagging

IdleSWR == InitSWR /\ sstore = [k \in SKeys |-> NoItem]

IdleTiered == InitTiered /\ tiers = Empty

IdleFailSafe == InitFailSafe /\ fstore = [k \in FKeys |-> NoFEnt]

IdleMap == InitMap

NextCoalescing ==
    \/ \E k \in CKeys : Get(k) /\ UNCHANGED <<tagVars, swrVars, tierVars, fsVars, mapVars>>
    \/ \E k \in CKeys : GetOrLoad(k) /\ UNCHANGED <<tagVars, swrVars, tierVars, fsVars, mapVars>>
    \/ \E k \in CKeys, v \in SetVals : Set(k, v) /\ UNCHANGED <<tagVars, swrVars, tierVars, fsVars, mapVars>>
    \/ \E k \in CKeys : Delete(k) /\ UNCHANGED <<tagVars, swrVars, tierVars, fsVars, mapVars>>
    \/ \E c \in 1..MaxCalls : GetOrLoadResume(c) /\ UNCHANGED <<tagVars, swrVars, tierVars, fsVars, mapVars>>
    \/ \E c \in 1..MaxCalls : GetOrLoadLoaded(c) /\ UNCHANGED <<tagVars, swrVars, tierVars, fsVars, mapVars>>
    \/ \E c \in 1..MaxCalls : GetOrLoadStored(c) /\ UNCHANGED <<tagVars, swrVars, tierVars, fsVars, mapVars>>
    \/ \E c \in 1..MaxCalls : DeleteSettle(c) /\ UNCHANGED <<tagVars, swrVars, tierVars, fsVars, mapVars>>
    \/ \E i \in 1..MaxProm : UGetSettle(i) /\ UNCHANGED <<tagVars, swrVars, tierVars, fsVars, mapVars>>
    \/ \E i \in 1..MaxProm : UGetOrLoadRead(i) /\ UNCHANGED <<tagVars, swrVars, tierVars, fsVars, mapVars>>
    \/ \E i \in 1..MaxProm, v \in LoadResults : UGetOrLoadLoaded(i, v) /\ UNCHANGED <<tagVars, swrVars, tierVars, fsVars, mapVars>>
    \/ \E i \in 1..MaxProm : UGetOrLoadStored(i) /\ UNCHANGED <<tagVars, swrVars, tierVars, fsVars, mapVars>>
    \/ \E i \in 1..MaxProm, v \in LoadResults : LoadSettle(i, v) /\ UNCHANGED <<tagVars, swrVars, tierVars, fsVars, mapVars>>
    \/ \E i \in 1..MaxProm : SetSettle(i) /\ UNCHANGED <<tagVars, swrVars, tierVars, fsVars, mapVars>>

CoalescingInit == InitCoalescing /\ IdleTagging /\ IdleSWR /\ IdleTiered /\ IdleFailSafe /\ IdleMap

SpecCoalescing == CoalescingInit /\ [][NextCoalescing]_vars

\* the same calls over a wrapped cache and loaders that may fail
NextCoalescingFail ==
    \/ NextCoalescing
    \/ \E i \in 1..MaxProm : UFail(i) /\ UNCHANGED <<tagVars, swrVars, tierVars, fsVars, mapVars>>
    \/ \E i \in 1..MaxProm : LoadFail(i) /\ UNCHANGED <<tagVars, swrVars, tierVars, fsVars, mapVars>>

CoalescingFailInit == InitCoalescing /\ IdleTagging /\ IdleSWR /\ IdleTiered /\ IdleFailSafe /\ IdleMap

SpecCoalescingFail == CoalescingFailInit /\ [][NextCoalescingFail]_vars

\* the single-key and the batch calls, over a wrapped cache and loaders
\* that may fail at every operation; MaxBatchCalls calls are made
NextCoalescingMany ==
    \/ NextCoalescingFail /\ ncall' <= MaxBatchCalls
    \/ \E i \in 1..MaxProm : SetFail(i) /\ UNCHANGED <<tagVars, swrVars, tierVars, fsVars, mapVars>>
    \/ \E c \in 1..MaxCalls : DeleteFail(c) /\ UNCHANGED <<tagVars, swrVars, tierVars, fsVars, mapVars>>
    \/ \E c \in 1..MaxCalls : GetOrLoadStoreFail(c) /\ UNCHANGED <<tagVars, swrVars, tierVars, fsVars, mapVars>>
    \/ \E K \in SUBSET CKeys \ {{}} : GetMany(K) /\ ncall' <= MaxBatchCalls /\ UNCHANGED <<tagVars, swrVars, tierVars, fsVars, mapVars>>
    \/ \E c \in 1..MaxCalls, ok \in BOOLEAN : UGetManySettle(c, ok) /\ UNCHANGED <<tagVars, swrVars, tierVars, fsVars, mapVars>>
    \/ \E c \in 1..MaxCalls : GetManyReturn(c) /\ UNCHANGED <<tagVars, swrVars, tierVars, fsVars, mapVars>>
    \/ \E K \in SUBSET CKeys \ {{}}, v \in SetVals : SetMany(K, v) /\ ncall' <= MaxBatchCalls /\ UNCHANGED <<tagVars, swrVars, tierVars, fsVars, mapVars>>
    \/ \E c \in 1..MaxCalls, ok \in BOOLEAN : USetManySettle(c, ok) /\ UNCHANGED <<tagVars, swrVars, tierVars, fsVars, mapVars>>
    \/ \E i \in 1..MaxProm : SetManyChain(i) /\ UNCHANGED <<tagVars, swrVars, tierVars, fsVars, mapVars>>
    \/ \E K \in SUBSET CKeys \ {{}} : DeleteMany(K) /\ ncall' <= MaxBatchCalls /\ UNCHANGED <<tagVars, swrVars, tierVars, fsVars, mapVars>>
    \/ \E c \in 1..MaxCalls, ok \in BOOLEAN : DeleteManySettle(c, ok) /\ UNCHANGED <<tagVars, swrVars, tierVars, fsVars, mapVars>>

\* every underlying call and every loader eventually settles, one way or the
\* other, and every reaction queued on a settled promise eventually runs
Settles(i) ==
    \/ UGetSettle(i) \/ UGetOrLoadRead(i) \/ UGetOrLoadStored(i) \/ SetSettle(i)
    \/ \E v \in LoadResults : UGetOrLoadLoaded(i, v) \/ LoadSettle(i, v)
    \/ UFail(i) \/ LoadFail(i) \/ SetFail(i) \/ SetManyChain(i)

Continues(c) ==
    \/ GetOrLoadResume(c) \/ GetOrLoadLoaded(c) \/ GetOrLoadStored(c) \/ GetOrLoadStoreFail(c)
    \/ DeleteSettle(c) \/ DeleteFail(c) \/ GetManyReturn(c)
    \/ \E ok \in BOOLEAN : UGetManySettle(c, ok) \/ USetManySettle(c, ok) \/ DeleteManySettle(c, ok)

CoalescingFairness ==
    /\ \A i \in 1..MaxProm : WF_vars(Settles(i) /\ UNCHANGED <<tagVars, swrVars, tierVars, fsVars, mapVars>>)
    /\ \A c \in 1..MaxCalls : WF_vars(Continues(c) /\ UNCHANGED <<tagVars, swrVars, tierVars, fsVars, mapVars>>)

CoalescingManyInit == InitCoalescing /\ IdleTagging /\ IdleSWR /\ IdleTiered /\ IdleFailSafe /\ IdleMap

SpecCoalescingMany == CoalescingManyInit /\ [][NextCoalescingMany]_vars /\ CoalescingFairness

\* the continuations of the TaggingCache calls
TagContinue ==
    \/ \E p \in Tasks : RefreshRead(p) /\ UNCHANGED <<coalVars, swrVars, tierVars, fsVars, mapVars>>
    \/ \E p \in Tasks : RefreshWrite(p) /\ UNCHANGED <<coalVars, swrVars, tierVars, fsVars, mapVars>>
    \/ \E p \in Tasks : SetWrite(p) /\ UNCHANGED <<coalVars, swrVars, tierVars, fsVars, mapVars>>
    \/ \E p \in Tasks : InvalidateWrite(p) /\ UNCHANGED <<coalVars, swrVars, tierVars, fsVars, mapVars>>
    \/ \E p \in Tasks : ExpRead(p) /\ UNCHANGED <<coalVars, swrVars, tierVars, fsVars, mapVars>>
    \/ \E p \in Tasks : GetDelete(p) /\ UNCHANGED <<coalVars, swrVars, tierVars, fsVars, mapVars>>
    \/ \E p \in Tasks : GolExpRead(p) /\ UNCHANGED <<coalVars, swrVars, tierVars, fsVars, mapVars>>
    \/ \E p \in Tasks : GolLoaded(p) /\ UNCHANGED <<coalVars, swrVars, tierVars, fsVars, mapVars>>
    \/ \E p \in Tasks : GolStore1(p) /\ UNCHANGED <<coalVars, swrVars, tierVars, fsVars, mapVars>>
    \/ \E p \in Tasks : GolStore2(p) /\ UNCHANGED <<coalVars, swrVars, tierVars, fsVars, mapVars>>

\* calls may be issued while others are in progress
NextTagging ==
    \/ Tick /\ UNCHANGED <<coalVars, swrVars, tierVars, fsVars, mapVars>>
    \/ \E p \in Tasks, k \in TKeys, T \in SUBSET Tags : TSet(p, k, T) /\ UNCHANGED <<coalVars, swrVars, tierVars, fsVars, mapVars>>
    \/ \E p \in Tasks, T \in SUBSET Tags : TSetMany(p, TKeys, T) /\ UNCHANGED <<coalVars, swrVars, tierVars, fsVars, mapVars>>
    \/ \E p \in Tasks, t \in Tags : InvalidateTag(p, t) /\ UNCHANGED <<coalVars, swrVars, tierVars, fsVars, mapVars>>
    \/ \E p \in Tasks : InvalidateTags(p, Tags) /\ UNCHANGED <<coalVars, swrVars, tierVars, fsVars, mapVars>>
    \/ \E p \in Tasks, k \in TKeys : TGet(p, k) /\ UNCHANGED <<coalVars, swrVars, tierVars, fsVars, mapVars>>
    \/ \E p \in Tasks, k \in TKeys, T \in SUBSET Tags : TGetOrLoad(p, k, T) /\ UNCHANGED <<coalVars, swrVars, tierVars, fsVars, mapVars>>
    \/ TagContinue

TaggingInit == IdleCoalescing /\ InitTagging /\ IdleSWR /\ IdleTiered /\ IdleFailSafe /\ IdleMap

SpecTagging == TaggingInit /\ [][NextTagging]_vars

\* every call is awaited before the next one is issued
NextTaggingSeq ==
    \/ Tick /\ UNCHANGED <<coalVars, swrVars, tierVars, fsVars, mapVars>>
    \/ \E k \in TKeys, T \in SUBSET Tags : AllFree /\ TSet(1, k, T) /\ UNCHANGED <<coalVars, swrVars, tierVars, fsVars, mapVars>>
    \/ \E T \in SUBSET Tags : AllFree /\ TSetMany(1, TKeys, T) /\ UNCHANGED <<coalVars, swrVars, tierVars, fsVars, mapVars>>
    \/ \E t \in Tags : AllFree /\ InvalidateTag(1, t) /\ UNCHANGED <<coalVars, swrVars, tierVars, fsVars, mapVars>>
    \/ AllFree /\ InvalidateTags(1, Tags) /\ UNCHANGED <<coalVars, swrVars, tierVars, fsVars, mapVars>>
    \/ \E k \in TKeys : AllFree /\ TGet(1, k) /\ UNCHANGED <<coalVars, swrVars, tierVars, fsVars, mapVars>>
    \/ \E k \in TKeys, T \in SUBSET Tags : AllFree /\ TGetOrLoad(1, k, T) /\ UNCHANGED <<coalVars, swrVars, tierVars, fsVars, mapVars>>
    \/ TagContinue

SpecTaggingSeq == TaggingInit /\ [][NextTaggingSeq]_vars

\* one call at a time, over a wrapped cache where the markers can expire
NextTaggingExpiry ==
    \/ NextTaggingSeq
    \/ \E t \in Tags : MarkerExpire(t) /\ UNCHANGED <<coalVars, swrVars, tierVars, fsVars, mapVars>>

TaggingExpiryInit == IdleCoalescing /\ InitTagging /\ IdleSWR /\ IdleTiered /\ IdleFailSafe /\ IdleMap

SpecTaggingExpiry == TaggingExpiryInit /\ [][NextTaggingExpiry]_vars

\* concurrent calls on a TaggingCache whose entry of key1 has been
\* invalidated: set('key1', v, { tags: ['tagA'] }) completed at time 1 and
\* invalidateTag('tagA') completed at time 2
StaleEntry == [v |-> SetVal, d |-> 1, t |-> {"tagA"}]

InitTaggingStale ==
    /\ tnow = 2
    /\ tstore = [k \in TKeys |-> IF k = "key1" THEN StaleEntry ELSE NoEntry]
    /\ markers = [t \in Tags |-> IF t = "tagA" THEN 2 ELSE Absent]
    /\ task = [p \in Tasks |-> NoTask]
    /\ tops = 0
    /\ invalidated = {"key1"}

TaggingStaleInit == IdleCoalescing /\ InitTaggingStale /\ IdleSWR /\ IdleTiered /\ IdleFailSafe /\ IdleMap

\* the clock stands at 2 while the calls race
NextTaggingStale ==
    \/ \E p \in Tasks, k \in TKeys, T \in SUBSET Tags : TSet(p, k, T) /\ UNCHANGED <<coalVars, swrVars, tierVars, fsVars, mapVars>>
    \/ \E p \in Tasks, T \in SUBSET Tags : TSetMany(p, TKeys, T) /\ UNCHANGED <<coalVars, swrVars, tierVars, fsVars, mapVars>>
    \/ \E p \in Tasks, t \in Tags : InvalidateTag(p, t) /\ UNCHANGED <<coalVars, swrVars, tierVars, fsVars, mapVars>>
    \/ \E p \in Tasks : InvalidateTags(p, Tags) /\ UNCHANGED <<coalVars, swrVars, tierVars, fsVars, mapVars>>
    \/ \E p \in Tasks, k \in TKeys : TGet(p, k) /\ UNCHANGED <<coalVars, swrVars, tierVars, fsVars, mapVars>>
    \/ \E p \in Tasks, k \in TKeys, T \in SUBSET Tags : TGetOrLoad(p, k, T) /\ UNCHANGED <<coalVars, swrVars, tierVars, fsVars, mapVars>>
    \/ TagContinue

SpecTaggingStale == TaggingStaleInit /\ [][NextTaggingStale]_vars

NextSWR ==
    \/ STick /\ UNCHANGED <<coalVars, tagVars, tierVars, fsVars, mapVars>>
    \/ \E p \in SSlots, k \in SKeys : SSet(p, k) /\ UNCHANGED <<coalVars, tagVars, tierVars, fsVars, mapVars>>
    \/ \E p \in SSlots, k \in SKeys : SDelete(p, k) /\ UNCHANGED <<coalVars, tagVars, tierVars, fsVars, mapVars>>
    \/ \E p \in SSlots, K \in (SUBSET SKeys) \ {{}} : SSetMany(p, K) /\ UNCHANGED <<coalVars, tagVars, tierVars, fsVars, mapVars>>
    \/ \E p \in SSlots, k \in SKeys : SGet(p, k) /\ UNCHANGED <<coalVars, tagVars, tierVars, fsVars, mapVars>>
    \/ \E p \in SSlots, k \in SKeys, opt \in TTLOpts : SGetOrLoad(p, k, opt) /\ UNCHANGED <<coalVars, tagVars, tierVars, fsVars, mapVars>>
    \/ \E p \in SSlots : SLoaded(p) /\ UNCHANGED <<coalVars, tagVars, tierVars, fsVars, mapVars>>
    \/ \E p \in SSlots : SStored(p) /\ UNCHANGED <<coalVars, tagVars, tierVars, fsVars, mapVars>>
    \/ \E p \in SSlots : SCheck(p) /\ UNCHANGED <<coalVars, tagVars, tierVars, fsVars, mapVars>>
    \/ \E i \in 1..MaxBg : BgLoaded(i) /\ UNCHANGED <<coalVars, tagVars, tierVars, fsVars, mapVars>>
    \/ \E i \in 1..MaxBg : BgFailed(i) /\ UNCHANGED <<coalVars, tagVars, tierVars, fsVars, mapVars>>
    \/ \E i \in 1..MaxBg : BgStored(i) /\ UNCHANGED <<coalVars, tagVars, tierVars, fsVars, mapVars>>
    \/ \E i \in 1..MaxBg : BgStoreFailed(i) /\ UNCHANGED <<coalVars, tagVars, tierVars, fsVars, mapVars>>

SWRInit == IdleCoalescing /\ IdleTagging /\ InitSWR /\ IdleTiered /\ IdleFailSafe /\ IdleMap

SpecSWR == SWRInit /\ [][NextSWR]_vars

\* SWRCache, one call at a time
NextSWRSeq ==
    \/ STick /\ UNCHANGED <<coalVars, tagVars, tierVars, fsVars, mapVars>>
    \/ \E k \in SKeys : SAllFree /\ SSet(1, k) /\ UNCHANGED <<coalVars, tagVars, tierVars, fsVars, mapVars>>
    \/ \E k \in SKeys : SAllFree /\ SDelete(1, k) /\ UNCHANGED <<coalVars, tagVars, tierVars, fsVars, mapVars>>
    \/ \E K \in (SUBSET SKeys) \ {{}} : SAllFree /\ SSetMany(1, K) /\ UNCHANGED <<coalVars, tagVars, tierVars, fsVars, mapVars>>
    \/ \E k \in SKeys : SAllFree /\ SGet(1, k) /\ UNCHANGED <<coalVars, tagVars, tierVars, fsVars, mapVars>>
    \/ \E k \in SKeys, opt \in TTLOpts :
          SAllFree /\ SGetOrLoad(1, k, opt) /\ UNCHANGED <<coalVars, tagVars, tierVars, fsVars, mapVars>>
    \/ \E p \in SSlots : SLoaded(p) /\ UNCHANGED <<coalVars, tagVars, tierVars, fsVars, mapVars>>
    \/ \E p \in SSlots : SStored(p) /\ UNCHANGED <<coalVars, tagVars, tierVars, fsVars, mapVars>>
    \/ \E p \in SSlots : SCheck(p) /\ UNCHANGED <<coalVars, tagVars, tierVars, fsVars, mapVars>>
    \/ \E i \in 1..MaxBg : BgLoaded(i) /\ UNCHANGED <<coalVars, tagVars, tierVars, fsVars, mapVars>>
    \/ \E i \in 1..MaxBg : BgFailed(i) /\ UNCHANGED <<coalVars, tagVars, tierVars, fsVars, mapVars>>
    \/ \E i \in 1..MaxBg : BgStored(i) /\ UNCHANGED <<coalVars, tagVars, tierVars, fsVars, mapVars>>
    \/ \E i \in 1..MaxBg : BgStoreFailed(i) /\ UNCHANGED <<coalVars, tagVars, tierVars, fsVars, mapVars>>

SWRSeqInit == IdleCoalescing /\ IdleTagging /\ InitSWR /\ IdleTiered /\ IdleFailSafe /\ IdleMap

SpecSWRSeq == SWRSeqInit /\ [][NextSWRSeq]_vars

\* TieredCache, one call at a time
NextTieredSeq ==
    \/ \E k \in GKeys : GAllFree /\ TierGet(1, k) /\ UNCHANGED <<coalVars, tagVars, swrVars, fsVars, mapVars>>
    \/ \E k \in GKeys, given \in BOOLEAN :
          GAllFree /\ TierGetOrLoad(1, k, given) /\ UNCHANGED <<coalVars, tagVars, swrVars, fsVars, mapVars>>
    \/ \E k \in GKeys, v \in GVals, given \in BOOLEAN :
          GAllFree /\ TierSet(1, k, v, given) /\ UNCHANGED <<coalVars, tagVars, swrVars, fsVars, mapVars>>
    \/ \E K \in ManyKeys : GAllFree /\ TierGetMany(1, K) /\ UNCHANGED <<coalVars, tagVars, swrVars, fsVars, mapVars>>
    \/ \E p \in GSlots : TierGetManyRead(p) /\ UNCHANGED <<coalVars, tagVars, swrVars, fsVars, mapVars>>
    \/ \E K \in ManyKeys, v \in GVals, given \in BOOLEAN :
          GAllFree /\ TierSetMany(1, K, v, given) /\ UNCHANGED <<coalVars, tagVars, swrVars, fsVars, mapVars>>
    \/ \E k \in GKeys : GAllFree /\ TierDelete(1, k) /\ UNCHANGED <<coalVars, tagVars, swrVars, fsVars, mapVars>>
    \/ \E K \in ManyKeys : GAllFree /\ TierDeleteMany(1, K) /\ UNCHANGED <<coalVars, tagVars, swrVars, fsVars, mapVars>>
    \/ \E p \in GSlots : TierRead(p) /\ UNCHANGED <<coalVars, tagVars, swrVars, fsVars, mapVars>>
    \/ \E p \in GSlots : TierLoaded(p) /\ UNCHANGED <<coalVars, tagVars, swrVars, fsVars, mapVars>>
    \/ \E p \in GSlots : TierFill(p) /\ UNCHANGED <<coalVars, tagVars, swrVars, fsVars, mapVars>>
    \/ \E p \in GSlots, i \in Tiers : TierSetWrite(p, i) /\ UNCHANGED <<coalVars, tagVars, swrVars, fsVars, mapVars>>
    \/ \E p \in GSlots, i \in Tiers : TierDeleteWrite(p, i) /\ UNCHANGED <<coalVars, tagVars, swrVars, fsVars, mapVars>>
    \/ \E p \in GSlots, i \in Tiers : TierSetFail(p, i) /\ UNCHANGED <<coalVars, tagVars, swrVars, fsVars, mapVars>>
    \/ \E p \in GSlots, i \in Tiers : TierDeleteFail(p, i) /\ UNCHANGED <<coalVars, tagVars, swrVars, fsVars, mapVars>>

TieredInit == IdleCoalescing /\ IdleTagging /\ IdleSWR /\ InitTiered /\ IdleFailSafe /\ IdleMap

\* getMany calls, one at a time, over tiers of which any may answer {}
NextTieredMany ==
    \/ \E K \in ManyKeys : GAllFree /\ TierGetMany(1, K) /\ UNCHANGED <<coalVars, tagVars, swrVars, fsVars, mapVars>>
    \/ \E p \in GSlots : TierGetManyRead(p) /\ UNCHANGED <<coalVars, tagVars, swrVars, fsVars, mapVars>>
    \/ \E p \in GSlots : TierGetManyNoEntries(p) /\ UNCHANGED <<coalVars, tagVars, swrVars, fsVars, mapVars>>

TieredManyInit == IdleCoalescing /\ IdleTagging /\ IdleSWR /\ InitTiered /\ IdleFailSafe /\ IdleMap

SpecTieredMany == TieredManyInit /\ [][NextTieredMany]_vars

SpecTieredSeq == TieredInit /\ [][NextTieredSeq]_vars

\* getOrLoad calls on the fail-safe cache, one at a time; the store and the
\* loader may fail at every step
NextFailSafe ==
    \/ \E k \in FKeys, policy \in Policies, given \in BOOLEAN :
          FsGetOrLoad(k, policy, given) /\ UNCHANGED <<coalVars, tagVars, swrVars, tierVars, mapVars>>
    \/ BaseRead /\ UNCHANGED <<coalVars, tagVars, swrVars, tierVars, mapVars>>
    \/ BaseReadFailed /\ UNCHANGED <<coalVars, tagVars, swrVars, tierVars, mapVars>>
    \/ \E v \in FLoads : BaseLoaded(v) /\ UNCHANGED <<coalVars, tagVars, swrVars, tierVars, mapVars>>
    \/ LoadFailed /\ UNCHANGED <<coalVars, tagVars, swrVars, tierVars, mapVars>>
    \/ BaseStored /\ UNCHANGED <<coalVars, tagVars, swrVars, tierVars, mapVars>>
    \/ BaseStoreFailed /\ UNCHANGED <<coalVars, tagVars, swrVars, tierVars, mapVars>>
    \/ \E v \in FLoads : Reloaded(v) /\ UNCHANGED <<coalVars, tagVars, swrVars, tierVars, mapVars>>
    \/ ReloadFailed /\ UNCHANGED <<coalVars, tagVars, swrVars, tierVars, mapVars>>

FailSafeInit == IdleCoalescing /\ IdleTagging /\ IdleSWR /\ IdleTiered /\ InitFailSafe /\ IdleMap

SpecFailSafe == FailSafeInit /\ [][NextFailSafe]_vars

\* any sequence of set, setMany and delete on one LocalMapCache
NextMap ==
    \/ \E k \in MKeys, v \in MVals : MapSet(k, v) /\ UNCHANGED <<coalVars, tagVars, swrVars, tierVars, fsVars>>
    \/ \E ks \in DataKeys, v \in MVals : MapSetMany(ks, v) /\ UNCHANGED <<coalVars, tagVars, swrVars, tierVars, fsVars>>
    \/ \E k \in MKeys : MapDelete(k) /\ UNCHANGED <<coalVars, tagVars, swrVars, tierVars, fsVars>>

MapInit == IdleCoalescing /\ IdleTagging /\ IdleSWR /\ IdleTiered /\ IdleFailSafe /\ InitMap

SpecMap == MapInit /\ [][NextMap]_vars

\* The four layers side by side, each over its own empty store; a behaviour
\* exercises one of them: a layer takes steps only while the others have
\* not been called.
CoalescingAtRest == ncall = 0

TaggingAtRest == tops = 0 /\ tnow = 1

SWRAtRest == sops = 0 /\ snow = StartMs

TieredAtRest == gops = 0

NextRoundTrip ==
    \/ TaggingAtRest /\ SWRAtRest /\ TieredAtRest /\ NextCoalescing
    \/ CoalescingAtRest /\ SWRAtRest /\ TieredAtRest /\ NextTaggingSeq
    \/ CoalescingAtRest /\ TaggingAtRest /\ TieredAtRest /\ NextSWRSeq
    \/ CoalescingAtRest /\ TaggingAtRest /\ SWRAtRest /\ NextTieredSeq

RoundTripInit == IdleCoalescing /\ IdleTagging /\ IdleSWR /\ IdleTiered /\ IdleFailSafe /\ IdleMap

SpecRoundTrip == RoundTripInit /\ [][NextRoundTrip]_vars

\* ========================================================================
\*  Properties of the CoalescingCache (checked under SpecCoalescing)
\* ========================================================================
OnlyGets(k) == \A c \in CallsOn(k) : call[c].op = "get"

\* the invocations of the wrapped cache's get for key k
UGetCount(k) ==
    Cardinality({i \in 1..MaxProm : prom[i].kind = "get" /\ prom[i].key = k})

\* the loader invocations for key k (a promise record carries at most one)
LoadCount(k) ==
    Cardinality({i \in 1..MaxProm : prom[i].key = k /\ prom[i].loads > 0})

\* C1: when only get calls are made on a key, a get issued while another get
\* of the key is in flight starts no underlying get and shares the promise
\* (hence the result) of the call in flight; a get issued while none is in
\* flight starts its own underlying get, so the number of underlying gets is
\* the number of non-overlapping calls.
C1_GetCoalesced ==
    \A k \in CKeys : OnlyGets(k) =>
        /\ \A c \in CallsOn(k) :
              IF call[c].busy = {}
              THEN call[c].started
              ELSE /\ ~call[c].started
                   /\ \A d \in call[c].busy : call[c].waitOn = call[d].waitOn
        /\ UGetCount(k) = Cardinality({c \in CallsOn(k) : call[c].busy = {}})
        /\ \A c \in CallsOn(k) : \A d \in call[c].busy :
              CallDone(c) => CallDone(d) /\ CallResult(c) = CallResult(d)

C1_Witness ==
    \E k \in CKeys : \E c1, c2, c3 \in CallsOn(k) :
        /\ OnlyGets(k)
        /\ call[c1].busy = {} /\ call[c2].busy = {c1} /\ call[c3].busy = {} /\ c3 > c2
        /\ CallDone(c1) /\ CallDone(c2) /\ CallDone(c3)
        /\ CallResult(c2) = "a"
        /\ UGetCount(k) = 2

\* The getOrLoad calls issued on the key of c while c was in flight.
Group(c) == {d \in CallsOn(call[c].key) : d > c /\ c \in call[d].busy}

\* c is a getOrLoad issued while nothing was in flight on its key, and only
\* getOrLoad calls were issued on the key while c was in flight.
C2_Pre(c) ==
    /\ call[c].op = "getOrLoad"
    /\ call[c].busy = {}
    /\ \A d \in Group(c) : call[d].op = "getOrLoad"

C2_Shared(c) ==
    LET p == call[c].waitOn IN
    /\ call[c].started
    /\ prom[p].kind = "getOrLoad"
    /\ \A d \in Group(c) : ~call[d].started /\ call[d].waitOn = p
    /\ \A d \in Group(c) : CallDone(d) => CallDone(c) /\ CallResult(d) = CallResult(c)

\* C2 as stated: one underlying getOrLoad, the loader invoked exactly once,
\* one value for all callers.
C2_Original ==
    \A c \in 1..ncall : C2_Pre(c) =>
        /\ C2_Shared(c)
        /\ CallDone(c) => prom[call[c].waitOn].loads = 1

\* C2 (amended): one underlying getOrLoad, one value for all callers, and the
\* loader is invoked at most once: once when the wrapped cache misses the
\* key, never when it holds it.
C2_GetOrLoadCoalesced ==
    \A c \in 1..ncall : C2_Pre(c) =>
        /\ C2_Shared(c)
        /\ prom[call[c].waitOn].loads <= 1
        /\ CallDone(c) =>
              prom[call[c].waitOn].loads = (IF prom[call[c].waitOn].read = Null THEN 1 ELSE 0)

C2_Witness ==
    \E c \in 1..ncall :
        /\ C2_Pre(c)
        /\ Cardinality(Group(c)) >= 2
        /\ \A d \in Group(c) : call[d].pc = "done" /\ call[d].result = "x"
        /\ prom[call[c].waitOn].loads = 1

\* g is a get and l a getOrLoad issued while g was in flight, they are the
\* only calls on the key, and the underlying get of g has missed.
C3_Scenario(k, g, l) ==
    /\ CallsOn(k) = {g, l}
    /\ g < l
    /\ call[g].op = "get"
    /\ call[l].op = "getOrLoad"
    /\ call[l].busy = {g}
    /\ CallDone(g)
    /\ prom[call[g].waitOn].kind = "get"
    /\ CallResult(g) = Null

\* C3 as stated: the loader is invoked once and the get caller receives the
\* loaded value.
C3_Original ==
    \A k \in CKeys : \A g, l \in CallsOn(k) :
        (C3_Scenario(k, g, l) /\ call[l].pc = "done") =>
            /\ LoadCount(k) = 1
            /\ CallResult(g) = call[l].result

\* C3 (amended): the loader is invoked once, the getOrLoad caller receives
\* the loaded value and the get caller receives absent (its own miss).
C3_GetThenGetOrLoad ==
    \A k \in CKeys : \A g, l \in CallsOn(k) :
        C3_Scenario(k, g, l) =>
            /\ LoadCount(k) <= 1
            /\ call[l].pc = "done" =>
                  /\ LoadCount(k) = 1
                  /\ prom[call[l].waitOn].kind = "load"
                  /\ call[l].result = PValue(call[l].waitOn)
                  /\ CallResult(g) = Null

C3_Witness ==
    \E k \in CKeys : \E g, l \in CallsOn(k) :
        /\ C3_Scenario(k, g, l)
        /\ call[l].pc = "done"
        /\ call[l].result = "x"
        /\ cstore[k] = "x"

\* C4: at most one underlying get / getOrLoad / loader invocation of a key
\* is outstanding.
C4_OneOutstanding ==
    \A k \in CKeys : Cardinality(Outstanding(k)) <= 1

\* ========================================================================
\*  Properties of the TaggingCache (checked under SpecTagging, SpecTaggingSeq)
\* ========================================================================
\* a get / getOrLoad that has settled after finding an entry under its key
FoundEntry(p) ==
    /\ task[p].pc = "done"
    /\ task[p].op \in {"get", "getOrLoad"}
    /\ task[p].entry # NoEntry

\* the call treated the entry it found as a miss
TreatedAsMiss(p) ==
    IF task[p].op = "get" THEN task[p].result = NoVal ELSE task[p].loads = 1

\* the call returned the entry it found
TreatedAsHit(p) ==
    task[p].result = task[p].entry.v /\ task[p].loads = 0

\* C5: a get (or getMany) of a key issued after an invalidation of one of
\* the tags of its stored entry has completed, that invalidation issued after
\* the entry was stored, returns absent; an entry stored without tags is
\* returned with its value.
C5_InvalidatedIsAbsent ==
    \A p \in Tasks : (task[p].op = "get" /\ task[p].pc = "done") =>
        /\ task[p].mustMiss => task[p].result = NoVal
        /\ (task[p].entry # NoEntry /\ task[p].entry.t = {}) =>
              task[p].result = task[p].entry.v

\* the expiry rule as stated: a marker absent or >= createdAt
RuleGeq(e, seen) == \E t \in e.t : seen[t] = Absent \/ seen[t] >= e.d

\* the expiry rule of the code: a marker absent or > createdAt
RuleGt(e, seen) == \E t \in e.t : seen[t] = Absent \/ seen[t] > e.d

\* C6 as stated: a found entry is a miss exactly when one of its tags has no
\* marker or a marker >= createdAt; entries without tags are never expired.
C6_Original ==
    \A p \in Tasks : FoundEntry(p) =>
        IF task[p].entry.t # {} /\ RuleGeq(task[p].entry, task[p].seen)
        THEN TreatedAsMiss(p)
        ELSE TreatedAsHit(p)

\* C6 (amended): a found entry is a miss exactly when one of its tags has no
\* marker or a marker strictly greater than createdAt; entries without tags
\* are never expired.
C6_ExpiryRule ==
    \A p \in Tasks : FoundEntry(p) =>
        IF task[p].entry.t # {} /\ RuleGt(task[p].entry, task[p].seen)
        THEN TreatedAsMiss(p)
        ELSE TreatedAsHit(p)

C6_Witness ==
    \E p \in Tasks :
        /\ FoundEntry(p)
        /\ task[p].op = "get"
        /\ task[p].entry.t = {"tagA", "tagB"}
        /\ task[p].seen["tagA"] = task[p].entry.d
        /\ task[p].seen["tagB"] > task[p].entry.d
        /\ task[p].result = NoVal

\* C7: only the write of invalidateTag / invalidateTags changes the
\* timestamp of a marker that exists.
C7_OnlyInvalidateAdvances ==
    [][\A t \in Tags :
          (markers[t] # Absent /\ markers'[t] # markers[t]) =>
              \E p \in Tasks : task[p].pc = "invWrite" /\ task'[p].pc = "done"]_vars

\* C8: with every call awaited before the next, an entry stored after the
\* invalidations of its tags is returned by get, and an entry stored before
\* an invalidation of one of its tags is absent.
C8_Retag ==
    \A p \in Tasks : (FoundEntry(p) /\ task[p].op = "get" /\ task[p].entry.t # {}) =>
        IF task[p].mustMiss
        THEN task[p].result = NoVal
        ELSE task[p].result = task[p].entry.v

\* the first half of C8 alone
C8_FreshIsReturned ==
    \A p \in Tasks : (FoundEntry(p) /\ task[p].op = "get" /\ ~task[p].mustMiss) =>
        task[p].result = task[p].entry.v

C10_OneRefreshPerKey ==
    /\ \A k \in SKeys :
          /\ Cardinality(Refreshing(k)) <= 1
          /\ k \in revalidating <=> Refreshing(k) # {}
    /\ \A p \in SSlots : (scall[p].op = "getOrLoad" /\ scall[p].pc = "done") =>
          /\ scall[p].result = scall[p].item.data
          /\ scall[p].started <=> (scall[p].stale /\ ~scall[p].sawReval)

C10_Witness ==
    \E p, q \in SSlots :
        /\ scall[p].op = "getOrLoad" /\ scall[p].pc = "done"
        /\ scall[q].op = "getOrLoad" /\ scall[q].pc = "done"
        /\ scall[p].key = "key1" /\ scall[q].key = "key1"
        /\ scall[p].stale /\ scall[p].started /\ scall[p].result = OldData
        /\ scall[q].stale /\ scall[q].sawReval /\ ~scall[q].started
        /\ \E i \in Refreshing("key1") : bg[i].phase = "loading"
        /\ Refreshing("key2") # {}

\* a getOrLoad call that has returned
DoneGetOrLoad(p) == scall[p].op = "getOrLoad" /\ scall[p].pc = "done"

\* C11: two overlapping getOrLoad calls on a key that both read the same
\* stale envelope start at most one background load between them.
C11_SingleFlight ==
    \A p, q \in SSlots :
        ( /\ p # q
          /\ DoneGetOrLoad(p) /\ DoneGetOrLoad(q)
          /\ scall[p].key = scall[q].key
          /\ scall[p].hit /\ scall[q].hit
          /\ scall[p].item = scall[q].item
          /\ scall[p].stale /\ scall[q].stale
          /\ (q \in scall[p].with \/ p \in scall[q].with) )
        => ~(scall[p].started /\ scall[q].started)

\* C12: a getOrLoad that finds an envelope with now < expiresAt returns its
\* data, starts no load (foreground or background) and writes nothing.
C12_FreshIsServed ==
    \A p \in SSlots :
        (DoneGetOrLoad(p) /\ scall[p].hit /\ scall[p].cmp = "before") =>
            /\ scall[p].result = scall[p].item.data
            /\ ~scall[p].started
            /\ scall[p].loads = 0
            /\ ~scall[p].wrote

C12_Witness ==
    \E p \in SSlots :
        /\ DoneGetOrLoad(p) /\ scall[p].hit /\ scall[p].cmp = "before"
        /\ scall[p].result = OldData
        /\ scall[p].key \notin revalidating

\* C13: a getOrLoad performed at now = expiresAt treats the envelope as stale,
\* so a background refresh is started unless one is registered.
C13_StaleAtExpiresAt ==
    \A p \in SSlots :
        (DoneGetOrLoad(p) /\ scall[p].hit /\ scall[p].cmp = "at") =>
            (scall[p].started \/ scall[p].sawReval)

\* C14: the entry written back by a refresh is {data: loaded value,
\* expiresAt: load completion + ttl*1000}, kept for ttl + staleTTL from the
\* write, and a get or getOrLoad that reads it returns the loaded value.
C14_RefreshWriteBack ==
    /\ \A k \in SKeys : writer[k].by = "refresh" =>
          sstore[k] = [data |-> NewData,
                       expiresAt |-> writer[k].made + writer[k].ttl * MsPerSecond,
                       gone |-> writer[k].at + (writer[k].ttl + StaleTTL) * MsPerSecond,
                       raw |-> 0]
    /\ \A p \in SSlots :
          ( /\ scall[p].op \in {"get", "getOrLoad"} /\ scall[p].pc = "done"
            /\ scall[p].hit /\ scall[p].src = "refresh" )
          => scall[p].result = NewData

C14_Witness ==
    \E p, q \in SSlots :
        /\ scall[p].op = "get" /\ scall[p].pc = "done"
        /\ scall[p].src = "refresh" /\ scall[p].result = NewData
        /\ writer[scall[p].key].by = "refresh"
        /\ writer[scall[p].key].ttl = OptTTL
        /\ writer[scall[p].key].made < writer[scall[p].key].at
        /\ DoneGetOrLoad(q) /\ scall[q].key = scall[p].key /\ scall[q].started
        /\ scall[q].result = OldData

\* C15: after a background refresh fails (loader or write-back) the key has
\* no revalidation record, the call that started it has returned the stale
\* data, and the next stale getOrLoad on the key starts a new refresh.
C15_FailureIsolated ==
    /\ \A k \in SKeys : failed[k] => (k \notin revalidating /\ Refreshing(k) = {})
    /\ \A p \in SSlots : DoneGetOrLoad(p) =>
          /\ scall[p].started => scall[p].result = scall[p].item.data
          /\ (scall[p].afterFail /\ scall[p].stale) => scall[p].started

C15_Witness ==
    \E p, q \in SSlots :
        /\ p # q
        /\ DoneGetOrLoad(p) /\ DoneGetOrLoad(q)
        /\ scall[p].key = scall[q].key
        /\ scall[p].started /\ ~scall[p].afterFail /\ scall[p].result = OldData
        /\ scall[q].afterFail /\ scall[q].stale /\ scall[q].started
        /\ scall[q].result = OldData

\* C16: no promise rejected during a background refresh is left without a
\* rejection handler.
C16_NoUnhandledRejection == ~unhandled

\* C17: the step of a get changes neither the wrapped cache, nor the
\* revalidation records, nor the background refreshes, and returns the data
\* of the envelope it reads, fresh or stale, and null when there is none.
C17_GetIsPure ==
    [][\A p \in SSlots :
          (scall'[p] # scall[p] /\ scall'[p].op = "get" /\ scall'[p].pc = "done") =>
              /\ sstore' = sstore
              /\ revalidating' = revalidating
              /\ bg' = bg
              /\ (scall'[p].hit /\ scall'[p].cmp # "nan") =>
                     scall'[p].result = scall'[p].item.data
              /\ ~scall'[p].hit => scall'[p].result = 0]_vars

C17_Witness ==
    \E p \in SSlots :
        /\ scall[p].op = "get" /\ scall[p].pc = "done"
        /\ scall[p].hit /\ scall[p].stale /\ scall[p].result = OldData
        /\ scall[p].key \notin revalidating

\* C18: setMany stores for each key the envelope that set would store, so a
\* get of a key written by setMany returns the value written.
C18_SetManyLikeSet ==
    /\ \A k \in SKeys : writer[k].by = "setMany" =>
          sstore[k] = Kept(Item(OldData, writer[k].at, DefaultTTL), DefaultTTL)
    /\ \A p \in SSlots :
          (scall[p].op = "get" /\ scall[p].pc = "done" /\ scall[p].hit /\ scall[p].src = "setMany")
          => scall[p].result = OldData

\* ========================================================================
\*  Properties of the TieredCache (checked under SpecTieredSeq)
\* ========================================================================
\* C20: a get consults the tiers in order up to the first one holding the
\* key and no further; when it completes, every tier above the hit holds the
\* hit value, written with that tier's options, and a get that follows is
\* answered by tier 0 alone.
C20_GetBackfills ==
    \A p \in GSlots :
        (gcall[p].op = "get" /\ gcall[p].pc = "done") =>
            /\ gcall[p].hitAt # NoTier =>
                  /\ gcall[p].read = 0..gcall[p].hitAt
                  /\ gcall[p].result = gcall[p].val
                  /\ tiers[gcall[p].hitAt][gcall[p].key].v = gcall[p].result
                  /\ \A j \in 0..(gcall[p].hitAt - 1) :
                        tiers[j][gcall[p].key] = [v |-> gcall[p].result, opt |-> TierOpt(j)]
            /\ gcall[p].follows =>
                  /\ gcall[p].read = {0}
                  /\ gcall[p].result = gcall[p].expect

C20_Witness ==
    \E p \in GSlots :
        /\ gcall[p].op = "get" /\ gcall[p].pc = "done"
        /\ gcall[p].follows /\ gcall[p].prevHit = Last
        /\ gcall[p].read = {0} /\ gcall[p].result \in GVals
        /\ \A j \in Tiers \ {Last} : tiers[j][gcall[p].key].opt = TierOpt(j)

\* C21: a getOrLoad that misses at every tier calls the caller's loader once
\* and leaves the loaded value in every tier, the last tier written with the
\* caller's options (its own if the caller gave none), the others with their
\* own; a getOrLoad that hits at some tier does not call the loader.
C21_GetOrLoadFillsAll ==
    \A p \in GSlots :
        (gcall[p].op = "getOrLoad" /\ gcall[p].pc = "done") =>
            IF gcall[p].hitAt = NoTier
            THEN /\ gcall[p].read = Tiers
                 /\ gcall[p].loads = 1
                 /\ gcall[p].result = Loaded
                 /\ tiers[Last][gcall[p].key] =
                       [v |-> Loaded, opt |-> Options(gcall[p].given, Last)]
                 /\ \A j \in Tiers \ {Last} :
                       tiers[j][gcall[p].key] = [v |-> Loaded, opt |-> TierOpt(j)]
            ELSE /\ gcall[p].loads = 0
                 /\ gcall[p].result = tiers[gcall[p].hitAt][gcall[p].key].v

C21_Witness ==
    \E p \in GSlots :
        /\ gcall[p].op = "getOrLoad" /\ gcall[p].pc = "done"
        /\ gcall[p].hitAt = NoTier /\ gcall[p].given /\ gcall[p].loads = 1
        /\ tiers[Last][gcall[p].key].opt = CallOpt
        /\ tiers[0][gcall[p].key] = [v |-> Loaded, opt |-> TierOpt(0)]

\* a write (set, setMany) or a removal (delete, deleteMany) that is over
DoneWrite(p) == gcall[p].op \in {"set", "setMany"} /\ gcall[p].pc = "done"

DoneRemoval(p) == gcall[p].op \in {"delete", "deleteMany"} /\ gcall[p].pc = "done"

\* C22: set, setMany, delete and deleteMany run the operation on every tier;
\* a write gives the last tier the caller's options (its own if the caller
\* gave none) and every other tier its own options; when every tier
\* succeeded, all tiers hold the written value (or none, after a removal).
C22_WritesReachEveryTier ==
    \A p \in GSlots :
        /\ (DoneWrite(p) \/ DoneRemoval(p)) => gcall[p].pending = {}
        /\ (DoneWrite(p) /\ gcall[p].failed = {}) =>
              /\ ~gcall[p].rejected
              /\ \A k \in gcall[p].keys :
                    /\ tiers[Last][k] = [v |-> gcall[p].val, opt |-> Options(gcall[p].given, Last)]
                    /\ \A j \in Tiers \ {Last} :
                          tiers[j][k] = [v |-> gcall[p].val, opt |-> TierOpt(j)]
        /\ (DoneRemoval(p) /\ gcall[p].failed = {}) =>
              \A k \in gcall[p].keys : \A j \in Tiers : tiers[j][k] = NoEnt

C22_Witness ==
    \E p \in GSlots :
        /\ gcall[p].op = "setMany" /\ gcall[p].pc = "done" /\ gcall[p].failed = {}
        /\ gcall[p].keys = GKeys /\ gcall[p].given
        /\ \A k \in GKeys : tiers[Last][k].opt = CallOpt /\ tiers[0][k].opt = TierOpt(0)

\* the tiers above tier i do not hold key k
MissedAbove(i, k) == \A j \in 0..(i - 1) : tiers[j][k].v = Null

\* the first tier holding key k, NoTier if none does
FoundAt(k) ==
    IF \A i \in Tiers : tiers[i][k].v = Null THEN NoTier
    ELSE CHOOSE i \in Tiers : tiers[i][k].v # Null /\ MissedAbove(i, k)

DoneGetMany(p) == gcall[p].op = "getMany" /\ gcall[p].pc = "done"

\* C23: getMany asks tier 0 for all the keys and tier i + 1 only for the keys
\* that tiers 0..i did not return; once nothing is outstanding, no later tier
\* is asked.
C23_GetManyEarlyExit ==
    \A p \in GSlots :
        DoneGetMany(p) =>
            \A i \in Tiers :
                gcall[p].asked[i] = {k \in gcall[p].keys : MissedAbove(i, k)}

C23_Witness ==
    \E p \in GSlots :
        /\ DoneGetMany(p) /\ gcall[p].keys = GKeys
        /\ gcall[p].asked[1] = {"k2"}
        /\ gcall[p].asked[Last] = {}

\* C24: the record returned by getMany has an entry for every requested key,
\* null for a key that no tier holds.
C24_GetManyShape ==
    \A p \in GSlots :
        DoneGetMany(p) =>
            \A k \in gcall[p].keys :
                gcall[p].data[k] = IF FoundAt(k) = NoTier THEN Null
                                   ELSE tiers[FoundAt(k)][k].v

\* C25: when getMany finds a key below tier 0, the tiers above the one where
\* it was found hold the found value, written with their own options, and
\* getMany writes nothing else.
C25_GetManyBackfills ==
    \A p \in GSlots :
        DoneGetMany(p) =>
            \A k \in GKeys : \A i \in Tiers :
                LET j == CHOOSE t \in Tiers \cup {NoTier} :
                            \/ t = NoTier /\ \A h \in Tiers : gcall[p].before[h][k].v = Null
                            \/ /\ t # NoTier /\ gcall[p].before[t][k].v # Null
                               /\ \A h \in 0..(t - 1) : gcall[p].before[h][k].v = Null
                IN  tiers[i][k] = IF k \in gcall[p].keys /\ j # NoTier /\ i < j
                                  THEN [v |-> gcall[p].before[j][k].v, opt |-> TierOpt(i)]
                                  ELSE gcall[p].before[i][k]

\* what a tier that succeeded holds for a key of the finished call in slot p
Outcome(p, i) ==
    IF gcall[p].op \in {"set", "setMany"} THEN Filled(gcall[p], i) ELSE NoEnt

\* C26: when a set, delete, setMany or deleteMany fails on one tier and
\* succeeds on another, the call rejects, every tier that succeeded holds the
\* outcome of the operation (no roll back), every tier that failed holds what
\* it held before the call (no retry), and so the tiers differ on the key
\* wherever the failed tier did not already hold that outcome.
C26_PartialFailure ==
    \A p \in GSlots :
        ( /\ DoneWrite(p) \/ DoneRemoval(p)
          /\ gcall[p].failed # {} /\ gcall[p].failed # Tiers ) =>
            /\ gcall[p].rejected
            /\ \A k \in gcall[p].keys : \A i \in Tiers :
                  /\ i \notin gcall[p].failed => tiers[i][k] = Outcome(p, i)
                  /\ i \in gcall[p].failed => tiers[i][k] = gcall[p].before[i][k]
                  /\ (i \in gcall[p].failed /\ gcall[p].before[i][k].v # Outcome(p, i).v)
                        => \E j \in Tiers : tiers[j][k].v # tiers[i][k].v

C26_Witness ==
    \E p \in GSlots :
        /\ gcall[p].op = "set" /\ gcall[p].pc = "done" /\ gcall[p].rejected
        /\ gcall[p].failed = {0}
        /\ tiers[0][gcall[p].key].v = "v1"
        /\ tiers[1][gcall[p].key].v = "v2" /\ tiers[Last][gcall[p].key].v = "v2"

\* ========================================================================
\*  Invalidation of the TaggingCache
\* ========================================================================
Invalidating(p) == task[p].op \in {"invalidateTag", "invalidateTags"}

\* C29: invalidateTag / invalidateTags make one write on the wrapped cache, a
\* set respectively a setMany that gives the markers of their tags the value
\* now with the ttl tagTTL, and neither read, write nor delete a tagged entry.
C29_InvalidateWritesMarkersOnly ==
    [][\A p \in Tasks :
          /\ (Invalidating(p) /\ task[p].pc = "invWrite" /\ task'[p].pc = "done") =>
                /\ tstore' = tstore
                /\ markers' = [t \in Tags |-> IF t \in task[p].tags THEN task[p].now
                                               ELSE markers[t]]
                /\ task'[p].wrote = [n |-> 1,
                                     op |-> IF task[p].op = "invalidateTag" THEN "set" ELSE "setMany",
                                     ttl |-> TagTTL]
          /\ (task'[p].pc = "invWrite" /\ task[p].pc # "invWrite") =>
                /\ tstore' = tstore /\ markers' = markers
                /\ task'[p].wrote.n = 0 /\ task'[p].now = tnow]_vars

C29_Witness ==
    \E p \in Tasks : \E k \in TKeys :
        /\ task[p].op = "invalidateTags" /\ task[p].pc = "done" /\ task[p].tags = Tags
        /\ task[p].wrote.n = 1
        /\ tstore[k].t # {} /\ \A t \in Tags : markers[t] = task[p].now

\* a get that is over, of a stored entry that a completed invalidation
\* covered, and that found the marker of one of the entry's tags gone
ForgottenMarker(p) ==
    /\ task[p].op = "get" /\ task[p].pc = "done"
    /\ task[p].mustMiss
    /\ \E t \in task[p].entry.t : task[p].seen[t] = Absent

\* C30 as stated: once the marker of tag t has expired, the get of an entry
\* tagged t that invalidateTag(t) had invalidated returns the entry's value.
C30_Original ==
    \A p \in Tasks : ForgottenMarker(p) => task[p].result = task[p].entry.v

\* C30, amended: once the marker of tag t has expired, the get of a stored
\* entry tagged t is a miss, whether the entry had been invalidated or not.
C30_ExpiredMarkerIsMiss ==
    \A p \in Tasks :
        ( /\ task[p].op = "get" /\ task[p].pc = "done"
          /\ \E t \in task[p].entry.t : task[p].seen[t] = Absent )
        => task[p].result = NoVal

C30_Witness ==
    \E p \in Tasks :
        /\ ForgottenMarker(p) /\ task[p].result = NoVal
        /\ tstore[CHOOSE k \in task[p].keys : TRUE] = NoEntry

\* ========================================================================
\*  In-flight writes of the CoalescingCache (checked under SpecCoalescing)
\* ========================================================================
\* call d was issued while call c, a write of the same key, was outstanding;
\* c is the only write of the key made so far, or the only one since the
\* earlier ones settled
DuringWrite(d, c) ==
    /\ d <= ncall /\ c \in call[d].busy
    /\ call[c].op \in {"set", "delete"}
    /\ \A b \in 1..MaxCalls :
          (b <= ncall /\ b # c /\ b < d /\ call[b].key = call[c].key
             /\ call[b].op \in {"set", "delete"})
          => (b < c /\ b \notin call[c].busy)

\* C27: a get or getOrLoad of k issued while a set(k, v) is outstanding
\* resolves to v without an underlying get / getOrLoad and without the
\* loader, and a get of k issued while a delete(k) is outstanding resolves to
\* absent without an underlying get, whatever was in flight on k when the
\* write was issued.
C27_InFlightWrites ==
    \A d \in 1..MaxCalls : \A c \in 1..MaxCalls :
        /\ (DuringWrite(d, c) /\ call[c].op = "set" /\ call[d].op \in {"get", "getOrLoad"}) =>
              /\ ~call[d].started
              /\ CallDone(d) => CallResult(d) = prom[call[c].waitOn].value
        /\ (DuringWrite(d, c) /\ call[c].op = "delete" /\ call[d].op = "get") =>
              /\ ~call[d].started
              /\ CallDone(d) => CallResult(d) = Null

\* ========================================================================
\*  Failures under the CoalescingCache (checked under SpecCoalescingFail)
\* ========================================================================
\* promise i, behind an ongoing record, has rejected
Rejected(i) == i \in 1..MaxProm /\ prom[i].phase = "done" /\ prom[i].value = Err

Undisturbed(c) ==
    \A d \in 1..MaxCalls :
        (d <= ncall /\ d > c /\ call[d].key = call[c].key) => c \notin call[d].busy

\* a set of key k (call c) issued while nothing is in progress on k, then a
\* get of k issued once the set has settled and left alone until it returns
RoundTripCoalescing ==
    \A c \in 1..(MaxCalls - 1) :
        ( /\ c + 1 <= ncall
          /\ call[c].op = "set" /\ call[c + 1].op = "get"
          /\ call[c].key = call[c + 1].key
          /\ call[c].busy = {} /\ call[c + 1].busy = {}
          /\ Undisturbed(c + 1)
          /\ CallDone(c + 1) )
        => CallResult(c + 1) = prom[call[c].waitOn].value

RoundTripTagging ==
    \A p \in Tasks :
        (task[p].op = "get" /\ task[p].pc = "done" /\ task[p].prevSet # NoVal)
        => task[p].result = task[p].prevSet

\* SWRCache: the calls are sequential, but a refresh started by an earlier
\* getOrLoad may still be in progress when the set is made
RoundTripSWR ==
    \A p \in SSlots :
        (scall[p].op = "get" /\ scall[p].pc = "done" /\ scall[p].prevSet # 0)
        => scall[p].result = scall[p].prevSet

RoundTripTiered ==
    \A p \in GSlots :
        (gcall[p].op = "get" /\ gcall[p].pc = "done" /\ gcall[p].prevSet # Null)
        => gcall[p].result = gcall[p].prevSet

\* C19: in each of CoalescingCache, TaggingCache, SWRCache and TieredCache,
\* over a store that keeps what it is given, a get(k) that follows a
\* set(k, v) with nothing in between returns v, also when the set created the
\* markers of its tags.
C19_RoundTrip ==
    /\ RoundTripCoalescing
    /\ RoundTripTagging
    /\ RoundTripSWR
    /\ RoundTripTiered

\* the round trips that are reached: TaggingCache, with tags whose markers
\* the set created
RoundTripSeenTagging ==
    \E p \in Tasks :
        /\ tops = 2
        /\ task[p].op = "get" /\ task[p].pc = "done"
        /\ task[p].prevSet = SetVal /\ task[p].result = SetVal
        /\ task[p].entry.t = Tags
        /\ \A t \in Tags : task[p].seen[t] = task[p].entry.d

RoundTripSeenCoalescing ==
    \E c \in 1..(MaxCalls - 1) :
        /\ c + 1 <= ncall /\ call[c].op = "set" /\ call[c + 1].op = "get"
        /\ call[c].key = call[c + 1].key
        /\ call[c].busy = {} /\ call[c + 1].busy = {}
        /\ Undisturbed(c + 1)
        /\ CallDone(c + 1) /\ CallResult(c + 1) = "a"

RoundTripSeenSWR ==
    \E p \in SSlots : scall[p].op = "get" /\ scall[p].pc = "done" /\ scall[p].result = OldData
                      /\ scall[p].prevSet = OldData

RoundTripSeenTiered ==
    \E p \in GSlots : gcall[p].op = "get" /\ gcall[p].pc = "done" /\ gcall[p].result \in GVals
                      /\ gcall[p].prevSet = gcall[p].result

\* ========================================================================
\*  Loads behind a pending get of the CoalescingCache (SpecCoalescing)
\* ========================================================================
\* the getOrLoad calls that found the record of promise j and awaited it
Waiters(j) == {c \in 1..ncall : call[c].op = "getOrLoad" /\ call[c].joined = j}

\* C33: when two or more getOrLoad calls wait on the record of the same
\* pending get and that get resolves absent, at most one of them calls the
\* loader (and then the underlying set); the others return the value it loaded.
C33_NoDuplicateLoad ==
    \A j \in 1..MaxProm :
        prom[j].kind = "get" =>
            Cardinality({c \in Waiters(j) : call[c].started}) <= 1

\* ========================================================================
\*  Life of the ongoing records (checked under SpecCoalescingMany)
\* ========================================================================
AllSettled == \A c \in 1..ncall : CallDone(c)

NoRecords == \A k \in CKeys : ongoingRequests[k] = NoReq

\* C34: when every underlying call and every loader eventually settles,
\* every call made through the layer eventually settles, the map of ongoing
\* requests becomes empty again and again, and it is empty whenever no call
\* made through the layer is pending.
C34_RecordLifecycle ==
    /\ [](AllSettled => NoRecords)
    /\ \A c \in 1..MaxCalls : (call[c].op # "none") ~> CallDone(c)
    /\ []<>NoRecords

\* the two halves of C34 on their own
RecordsGoWithCalls == AllSettled => NoRecords

CallsSettle ==
    /\ \A c \in 1..MaxCalls : (call[c].op # "none") ~> CallDone(c)
    /\ []<>NoRecords

\* ========================================================================
\*  Ownership of the ongoing records (checked under SpecCoalescing)
\* ========================================================================
\* an underlying get, getOrLoad, set or delete of key k started by the layer
\* has yet to settle
Underway(k) ==
    \/ \E i \in 1..MaxProm : /\ prom[i].key = k
                             /\ prom[i].kind \in {"get", "getOrLoad", "set"}
                             /\ prom[i].phase # "done"
    \/ \E c \in 1..ncall : call[c].key = k /\ call[c].pc \in {"awaitDel", "awaitSet"}

\* C36: while an underlying get, getOrLoad, set or delete started by the
\* layer for key k is outstanding, the map of ongoing requests holds a record
\* for k: no operation's settling removes the record of another that is
\* still outstanding.
C36_RecordWhileOutstanding ==
    \A k \in CKeys : Underway(k) => ongoingRequests[k] # NoReq

\* ========================================================================
\*  The delete of an invalidated entry (checked under SpecTaggingStale)
\* ========================================================================
\* the state SpecTaggingStale starts from, as the calls leave it
StaleStateReached ==
    /\ tnow = 2 /\ AllFree /\ invalidated = {"key1"}
    /\ tstore = [k \in TKeys |-> IF k = "key1" THEN StaleEntry ELSE NoEntry]
    /\ markers = [t \in Tags |-> IF t = "tagA" THEN 2 ELSE Absent]

\* C39: the delete that a get issues after finding the entry of its key
\* invalidated removes that entry or another invalidated one, never a valid
\* entry stored by a set that completed after the get read the key.
C39_DeleteOnlyInvalidated ==
    [][\A p \in Tasks :
          (task[p].op = "get" /\ task[p].pc = "getDelete" /\ task'[p].pc = "done") =>
              \A k \in task[p].keys :
                  \/ tstore[k] \in {NoEntry, task[p].entry}
                  \/ IsItemExpired(tstore[k].t, tstore[k].d, markers)]_vars

\* ========================================================================
\*  Background refresh against later writes (checked under SpecSWRSeq)
\* ========================================================================
\* the call made last, every call being awaited before the next is made
LastCall == scall[1]

\* C38: once a set or a delete of key k made after a background refresh of
\* k started has completed, the wrapped cache reflects it for as long as no
\* other call is made: the entry of k is the one the set wrote, respectively
\* k is absent, also after the refresh has settled.
C38_RefreshKeepsLaterWrite ==
    \A k \in SKeys :
        /\ (LastCall.op = "set" /\ LastCall.key = k) => writer[k].by = "set"
        /\ (LastCall.op = "delete" /\ LastCall.key = k) => sstore[k] = NoItem

\* ========================================================================
\*  getMany over tiers that answer no entry (checked under SpecTieredMany)
\* ========================================================================
\* tier j is the first to hold key k among the tiers that answered the call
\* in slot p with a record of entries
FirstAnswering(p, j, k) ==
    /\ j \notin gcall[p].mute /\ tiers[j][k].v # Null
    /\ \A i \in 0..(j - 1) : i \in gcall[p].mute \/ tiers[i][k].v = Null

\* C35: a requested key that a tier answered with null, with undefined or
\* with no entry at all is asked of the next tier, so getMany returns the
\* value of the first tier that holds the key among those that answered.
C35_GetManyCarriesForward ==
    \A p \in GSlots :
        DoneGetMany(p) =>
            \A k \in gcall[p].keys : \A j \in Tiers :
                FirstAnswering(p, j, k) => gcall[p].data[k] = tiers[j][k].v

\* ========================================================================
\*  A get that misses every tier (checked under SpecTieredSeq)
\* ========================================================================
\* C37: a get of a key that no tier holds returns absent and sets nothing:
\* when it has returned, no tier has an entry for the key, not even one
\* holding null.
C37_MissWritesNothing ==
    \A p \in GSlots :
        (gcall[p].op = "get" /\ gcall[p].pc = "done" /\ gcall[p].result = Null) =>
            \A i \in Tiers : tiers[i][gcall[p].key] = NoEnt

\* ========================================================================
\*  Properties of getOrLoad on the base and fail-safe caches (SpecFailSafe)
\* ========================================================================
\* the call has settled and neither the store nor the loader failed in it
SettledClean ==
    /\ fcall.pc = "done"
    /\ fcall.storeFailed = "none"
    /\ ~fcall.threw

\* C31: BaseCache.getOrLoad calls get once; on a hit the stored value is
\* returned and neither the loader nor set is called; on a miss the loader
\* is called exactly once and its result is written with
\* set(key, result, options) and returned.
C31_BaseGetOrLoad ==
    SettledClean =>
        /\ fcall.gets = 1
        /\ fcall.settled = "resolved"
        /\ fcall.read.v # Null =>
              /\ fcall.result = fcall.read.v
              /\ fcall.loads = 0
              /\ fcall.sets = 0
        /\ fcall.read.v = Null =>
              /\ fcall.loads = 1
              /\ fcall.sets = 1
              /\ fcall.result = fcall.loaded
              /\ fcall.wrote = [v |-> fcall.result, given |-> fcall.given]
              /\ fstore[fcall.key] = fcall.wrote

C31_Witness ==
    /\ SettledClean
    /\ fcall.read.v = Null
    /\ fcall.given
    /\ fcall.result = "x"
    /\ fstore[fcall.key] = [v |-> "x", given |-> TRUE]

\* C32: with FailSafeCache.getOrLoad an error of the loader always rejects
\* the call with that error, whatever the policy; under fail-open an error
\* of the store, in the read before the load or in the write after it,
\* leaves the call resolving with the loader's value, and the loader is
\* called exactly once in the call.
C32_FailSafeGetOrLoad ==
    fcall.pc = "done" =>
        /\ fcall.threw => (fcall.settled = "rejected" /\ fcall.result = LoadError)
        /\ (fcall.policy = "fail-open" /\ fcall.storeFailed # "none" /\ ~fcall.threw) =>
              /\ fcall.settled = "resolved"
              /\ fcall.result = fcall.loaded
              /\ fcall.loads = 1
        /\ fcall.loads <= 1

C32_Witness ==
    /\ fcall.pc = "done"
    /\ fcall.policy = "fail-open"
    /\ fcall.storeFailed = "set"
    /\ fcall.settled = "resolved"
    /\ fcall.result = "x"
    /\ fcall.loads = 1

\* ========================================================================
\*  Properties of the LocalMapCache (checked under SpecMap)
\* ========================================================================
\* C40: with the option max = MapMax, after any sequence of set, setMany and
\* delete calls the cache holds at most MapMax entries, a setMany that mixes
\* stored and new keys or brings more than MapMax new keys included.
C40_SizeBound == Len(mcache) <= MapMax

====
